---------------------------- MODULE Spec2Model ----------------------------
(***************************************************************************)
(* A model of the BiliClaw crawler (src/spider): the credential pool      *)
(* (cookie_pool.py), the token-bucket rate limiter (rate_limiter.py), the *)
(* retry wrapper of the API calls (api.py) and the crawling pipeline      *)
(* (crawler.py) over the progress store and the emitted-id ledgers        *)
(* (storage.py).                                                          *)
(*                                                                         *)
(* Each component has its own specification (SpecPool, SpecBucket,        *)
(* SpecApi, Spec); a specification leaves the variables of the components *)
(* it does not run at their idle values.  SpecApi runs the API calls over *)
(* the pool and the limiter.                                              *)
(***************************************************************************)
EXTENDS Integers, Sequences, FiniteSets, Bags, TLC

VARIABLES
    \* ---- cookie_pool.py: CookiePool ----
    cookies,      \* CookiePool._cookies: sequence of CookieItem records
    index,        \* CookiePool._index: the round-robin cursor
    strategy,     \* CookiePool._strategy
    ret,          \* what the pool operation just performed returned
    selCount      \* history: selections per credential since the available set last changed

poolVars == <<cookies, index, strategy, ret, selCount>>

VARIABLES
    \* ---- rate_limiter.py: TokenBucket and its callers ----
    tokens,       \* TokenBucket.tokens
    last_time,    \* TokenBucket.last_time
    rate,         \* TokenBucket.rate
    capacity,     \* TokenBucket.capacity
    now,          \* time.time(), in ticks
    acq,          \* per caller: where it is inside acquire, with its arguments and wait
    granted,      \* history: acquire(1) calls that returned True
    rateSet       \* history: set_rate has been called

bucketVars == <<tokens, last_time, rate, capacity, now, acq, granted, rateSet>>

VARIABLES
    \* ---- storage.py: what survives the process (files under sent_records/, the sink) ----
    sent_videos,     \* lines of sent_videos.txt
    sent_comments,   \* lines of sent_comments.txt
    sent_accounts,   \* lines of sent_accounts.txt
    pending_mids,    \* lines of pending_mids.txt
    progress,        \* video_comment_progress.json: bvid -> entry
    sink,            \* history: <<topic, key>> of every producer.send call so far
    \* ---- crawler.py: BiliCrawler, one run ----
    resume,                  \* BiliCrawler.resume
    n_threads,               \* run(n_threads)
    pages_per_thread,        \* run(pages_per_thread)
    keyless,                 \* the upstream service may return records without their key
    saved_bvids, saved_rpids, saved_mids, user_mids,
    video_queue, comment_queue, user_mid_queue,
    video_producers_done, comment_producers_done, reply_producers_done,
    active_comment_workers, active_reply_workers,
    main,            \* the thread running run() / search_videos_parallel()
    dw, cw, rw, aw,  \* detail, comment, reply and account worker threads
    faults,          \* upstream failures injected so far in this run
    runs,            \* runs started so far
    \* ---- history of the upstream service (across runs) ----
    served,          \* bvid -> the next_offset values get_main_comments returned for it
    clean,           \* no run so far was killed, saw an upstream error or ran without resume
    \* ---- history of the current run ----
    start_progress,  \* video_comment_progress.json as it was when the run started
    first_call,      \* bvid -> the first get_main_comments call made for it, if any
    sends,           \* bag of the <<topic, key>> of the producer.send calls
    puts,            \* bag of the mids of the user_mid_queue.put calls
    video_log        \* the ledger of videos at the start, the bvids found, put on the
                     \* video queue by the main thread and asked of get_video_detail

durableVars == <<sent_videos, sent_comments, sent_accounts, pending_mids, progress, sink>>

configVars == <<resume, n_threads, pages_per_thread, keyless>>

memoryVars == <<saved_bvids, saved_rpids, saved_mids, user_mids,
                video_queue, comment_queue, user_mid_queue,
                video_producers_done, comment_producers_done, reply_producers_done,
                active_comment_workers, active_reply_workers>>

threadVars == <<main, dw, cw, rw, aw>>

callVars == <<served, clean, start_progress, first_call>>

historyVars == <<callVars, sends, puts, video_log>>

pipeVars == <<durableVars, configVars, memoryVars, threadVars, faults, runs, historyVars>>

VARIABLES
    \* ---- api.py: the calls of the decorated API functions ----
    api,             \* per calling thread: its session, its call and where it is in retry_with_backoff
    wbi_mixin_key,   \* _wbi_mixin_key: 0 for None, else the cached key
    wbi_key_expire_time,  \* _wbi_key_expire_time
    requests,        \* history: HTTP requests sent to api.bilibili.com
    req              \* get_main_comments building one request: its arguments, sign_str and url

apiVars == <<api, wbi_mixin_key, wbi_key_expire_time, requests, req>>

VARIABLES
    \* ---- crawler.py: the search fan-out of search_videos_parallel, page by page ----
    fan,             \* search_videos_parallel: its arguments, results, unique_videos, video_chunks
    sw               \* thread_id -> the search_worker thread: its page, thread_videos, pages requested

fanVars == <<fan, sw>>

VARIABLES
    \* ---- storage.py: the progress store, call by call ----
    progress_file,   \* video_comment_progress.json: whether it parses, and the mapping it holds
    progress_lock,   \* _progress_lock: 0 when free, else the thread holding it
    store,           \* per thread: its call of the progress store and where it is in it
    applied,         \* history: the mapping after the writes that completed, in the order they completed
    crashes          \* history: times the process was killed

storeVars == <<progress_file, progress_lock, store, applied, crashes>>

\* The components that are studied on their own
unitVars == <<apiVars, fanVars, storeVars>>

vars == <<poolVars, bucketVars, pipeVars, unitVars>>

\* get_cookie / get_cookie_item returned None (or the operation was not a selection)
NoSelection == [op |-> "None", item |-> 0]

(***************************************************************************)
(*                     cookie_pool.py : the credential pool                *)
(***************************************************************************)

\* CookieItem.max_fails (the dataclass default; _load_cookies never overrides it)
max_fails == 3

\* Bounds of the pool model
MaxCookies == 3       \* credentials loaded from the configuration
MaxFailCount == 4     \* cap on CookieItem.fail_count (mark_failed never stops counting)
MaxSel == 4           \* cap on the selections counted since the available set changed

\* A freshly loaded CookieItem (dataclass defaults; only enabled items with a
\* non-empty value are appended by _load_cookies)
CookieItem(v) == [value |-> v, enabled |-> TRUE, is_valid |-> TRUE, fail_count |-> 0]

\* CookieItem.mark_failed
mark_failed(c) ==
    LET n == c.fail_count + 1
    IN  [c EXCEPT !.fail_count = n,
                  !.is_valid = IF n >= max_fails THEN FALSE ELSE c.is_valid]

\* CookieItem.reset
reset(c) == [c EXCEPT !.fail_count = 0, !.is_valid = TRUE]

\* available = [c for c in self._cookies if c.enabled and c.is_valid],
\* as the sequence of the positions of those items in _cookies
RECURSIVE AvailableFrom(_, _)
AvailableFrom(cs, i) ==
    IF i > Len(cs) THEN <<>>
    ELSE (IF cs[i].enabled /\ cs[i].is_valid THEN <<i>> ELSE <<>>)
         \o AvailableFrom(cs, i + 1)

Available(cs) == AvailableFrom(cs, 1)

SeqRange(s) == {s[k] : k \in 1..Len(s)}

RECURSIVE SumTo(_, _)
SumTo(f, n) == IF n = 0 THEN 0 ELSE f[n] + SumTo(f, n - 1)

Zeros == [i \in 1..Len(cookies) |-> 0]

\* The selection history restarts whenever an operation changes the available set.
SelAfter(cs) == IF Available(cs) = Available(cookies) THEN selCount ELSE Zeros

Selected(op, i) == [op |-> op, item |-> i]

\* The body shared, line for line, by get_cookie and get_cookie_item: pick from
\* `available` by strategy; round_robin reduces the cursor modulo the available
\* count, takes that item and advances the cursor by one.
Select(op) ==
    LET available == Available(cookies)
    IN  IF available = <<>>
        THEN /\ ret' = NoSelection
             /\ UNCHANGED <<cookies, index, strategy, selCount>>
        ELSE /\ SumTo(selCount, Len(cookies)) < MaxSel
             /\ IF strategy = "random"
                THEN \E k \in 1..Len(available) :
                        /\ ret' = Selected(op, available[k])
                        /\ selCount' = [selCount EXCEPT ![available[k]] = @ + 1]
                        /\ UNCHANGED index
                ELSE LET idx == index % Len(available)
                     IN  /\ ret' = Selected(op, available[idx + 1])
                         /\ selCount' = [selCount EXCEPT ![available[idx + 1]] = @ + 1]
                         /\ index' = idx + 1
             /\ UNCHANGED <<cookies, strategy>>

\* A round_robin selection that forgets to advance the cursor.
SelectStuck(op) ==
    LET available == Available(cookies)
    IN  /\ available # <<>>
        /\ SumTo(selCount, Len(cookies)) < MaxSel
        /\ LET idx == index % Len(available)
           IN  /\ ret' = Selected(op, available[idx + 1])
               /\ selCount' = [selCount EXCEPT ![available[idx + 1]] = @ + 1]
               /\ index' = idx
        /\ UNCHANGED <<cookies, strategy>>

get_cookie_stuck == SelectStuck("get_cookie")

\* CookiePool.get_cookie (returns cookie.value)
get_cookie == Select("get_cookie")

\* CookiePool.get_cookie_item (returns the CookieItem)
get_cookie_item == Select("get_cookie_item")

\* Position of the first item whose value is v (0: no such item): the loop of
\* mark_invalid stops at the first match.
RECURSIVE FirstWith(_, _, _)
FirstWith(cs, v, i) ==
    IF i > Len(cs) THEN 0
    ELSE IF cs[i].value = v THEN i ELSE FirstWith(cs, v, i + 1)

\* A mark_invalid that counts the failure but never excludes the credential.
MarkInvalidNoExclude(cs, v, permanent) ==
    LET i == FirstWith(cs, v, 1)
    IN  IF i = 0 THEN cs
        ELSE [cs EXCEPT ![i] = [@ EXCEPT !.fail_count = @ + 1]]

\* A mark_invalid whose loop does not break at the first match.
MarkInvalidEveryMatch(cs, v, permanent) ==
    [i \in 1..Len(cs) |->
        IF cs[i].value # v THEN cs[i]
        ELSE IF permanent THEN [cs[i] EXCEPT !.is_valid = FALSE, !.enabled = FALSE]
        ELSE mark_failed(cs[i])]

\* The pool after mark_invalid(cookie_value, permanent)
MarkInvalidCookies(cs, v, permanent) ==
    LET i == FirstWith(cs, v, 1)
    IN  IF i = 0 THEN cs
        ELSE IF permanent
             THEN [cs EXCEPT ![i] = [@ EXCEPT !.is_valid = FALSE, !.enabled = FALSE]]
             ELSE [cs EXCEPT ![i] = mark_failed(@)]

\* One call mark_invalid(v, permanent) on the pool
MarkInvalid(v, permanent) ==
    /\ cookies' = MarkInvalidCookies(cookies, v, permanent)
    /\ selCount' = SelAfter(cookies')
    /\ ret' = NoSelection
    /\ UNCHANGED <<index, strategy>>

\* CookiePool.mark_invalid; v ranges over the values in the pool and one
\* value (0) that no credential has.
mark_invalid ==
    \E v \in 0..MaxCookies, permanent \in BOOLEAN :
        LET i == FirstWith(cookies, v, 1)
        IN  /\ (i # 0 /\ ~permanent) => cookies[i].fail_count < MaxFailCount
            /\ MarkInvalid(v, permanent)

\* CookiePool.validate_all: every enabled credential is probed (validate_cookie,
\* an upstream call whose answer is an input) and is_valid is set to the answer.
validate_all ==
    \E probe \in [1..Len(cookies) -> BOOLEAN] :
        /\ cookies' = [i \in 1..Len(cookies) |->
                          IF cookies[i].enabled
                          THEN [cookies[i] EXCEPT !.is_valid = probe[i]]
                          ELSE cookies[i]]
        /\ selCount' = SelAfter(cookies')
        /\ ret' = NoSelection
        /\ UNCHANGED <<index, strategy>>

\* CookieItem.reset on an item of the pool (items are handed out by get_cookie_item)
reset_item ==
    \E i \in 1..Len(cookies) :
        /\ cookies' = [cookies EXCEPT ![i] = reset(@)]
        /\ selCount' = SelAfter(cookies')
        /\ ret' = NoSelection
        /\ UNCHANGED <<index, strategy>>

\* CookiePool.__init__ / _load_cookies: n credentials, all enabled and valid.
\* Values are opaque, so they are numbered in order of first appearance
\* (two credentials may carry the same value).
PoolInit ==
    /\ \E n \in 0..MaxCookies :
         \E vals \in [1..n -> 1..MaxCookies] :
            /\ \A i \in 1..n : vals[i] <= i
            /\ \A i \in 1..n : vals[i] = i \/ \E j \in 1..(i - 1) : vals[j] = vals[i]
            /\ cookies = [i \in 1..n |-> CookieItem(vals[i])]
            /\ selCount = [i \in 1..n |-> 0]
    /\ index = 0
    /\ strategy \in {"round_robin", "random"}
    /\ ret = NoSelection

PoolIdle ==
    /\ cookies = <<>>
    /\ index = 0
    /\ strategy = "round_robin"
    /\ ret = NoSelection
    /\ selCount = <<>>

(***************************************************************************)
(*                  rate_limiter.py : the global token bucket              *)
(***************************************************************************)

\* Bounds of the bucket model
NumCallers == 2       \* threads calling acquire
MaxCapacity == 2      \* largest capacity the bucket is constructed with
MaxRate == 2          \* largest rate (tokens per tick)
MaxTime == 3          \* ticks of the clock

Callers == 1..NumCallers

Min(a, b) == IF a <= b THEN a ELSE b

\* Smallest whole number of ticks that is at least a / b (b > 0)
CeilDiv(a, b) == (a + b - 1) \div b

\* TokenBucket._refill: the token count after refilling at time `now`
Refilled == Min(capacity, tokens + (now - last_time) * rate)

Idle == [pc |-> "idle", n |-> 0, wake |-> 0]

\* TokenBucket.acquire(n, blocking), first critical section: refill; deduct and
\* return True when tokens >= n; return False when not blocking; otherwise
\* compute wait_time from the deficit and leave the lock to sleep.
acquire(t, n, blocking) ==
    /\ acq[t].pc = "idle"
    /\ LET have == Refilled
       IN  /\ last_time' = now
           /\ IF have >= n
              THEN /\ tokens' = have - n
                   /\ granted' = granted + (IF n = 1 THEN 1 ELSE 0)
                   /\ acq' = acq
              ELSE /\ tokens' = have
                   /\ granted' = granted
                   /\ acq' = IF blocking
                             THEN [acq EXCEPT ![t] =
                                     [pc |-> "sleep", n |-> n,
                                      wake |-> now + CeilDiv(n - have, rate)]]
                             ELSE acq
    /\ UNCHANGED <<rate, capacity, now, rateSet>>

\* A thread calls acquire with any n <= capacity, blocking or not
acquire_enter(t) ==
    \E n \in 1..capacity, blocking \in BOOLEAN : acquire(t, n, blocking)

\* The token count a woken acquire leaves behind: refill, then deduct.
AfterWake(n) == Refilled - n

\* TokenBucket.acquire, after time.sleep(wait_time): second critical section.
acquire_wake(t) ==
    /\ acq[t].pc = "sleep"
    /\ now >= acq[t].wake
    /\ tokens' = AfterWake(acq[t].n)
    /\ last_time' = now
    /\ granted' = granted + (IF acq[t].n = 1 THEN 1 ELSE 0)
    /\ acq' = [acq EXCEPT ![t] = Idle]
    /\ UNCHANGED <<rate, capacity, now, rateSet>>

\* TokenBucket.set_rate
set_rate ==
    \E r \in 1..MaxRate :
        /\ r # rate
        /\ tokens' = Refilled
        /\ last_time' = now
        /\ rate' = r
        /\ rateSet' = TRUE
        /\ UNCHANGED <<capacity, now, acq, granted>>

\* The clock advances by one tick.
Tick ==
    /\ now < MaxTime
    /\ now' = now + 1
    /\ UNCHANGED <<tokens, last_time, rate, capacity, acq, granted, rateSet>>

\* TokenBucket.__init__: the bucket starts full; no thread of T is inside acquire.
BucketStart(T) ==
    /\ capacity \in 1..MaxCapacity
    /\ rate \in 1..MaxRate
    /\ tokens = capacity
    /\ now = 0
    /\ last_time = now
    /\ acq = [t \in T |-> Idle]
    /\ granted = 0
    /\ rateSet = FALSE

BucketInit == BucketStart(Callers)

(***************************************************************************)
(*        spider-py/rate_limiter.py : the TokenBucket whose acquire        *)
(*        loops (`while True`) instead of deducting after one sleep        *)
(***************************************************************************)

\* Bounds of the looping bucket
MaxBucketCalls == 2   \* acquire calls one thread makes

Max(a, b) == IF a >= b THEN a ELSE b

\* A thread outside acquire: the n of its last call, the calls it has made and
\* those that returned True
LoopIdle == [pc |-> "idle", n |-> 0, wake |-> 0, calls |-> 0, ok |-> 0]

\* One pass of the `while True` body under the lock: refill; deduct and
\* return True when tokens >= n; return False when not blocking; otherwise
\* compute wait_time and leave the lock to sleep.
loop_pass(t, n, blocking) ==
    LET have == Refilled
        call == IF acq[t].pc = "idle" THEN acq[t].calls + 1 ELSE acq[t].calls
    IN  /\ last_time' = now
        /\ IF have >= n
           THEN /\ tokens' = have - n
                /\ granted' = granted + (IF n = 1 THEN 1 ELSE 0)
                /\ acq' = [acq EXCEPT ![t] = [@ EXCEPT !.pc = "idle", !.n = n, !.wake = 0,
                                                       !.calls = call, !.ok = @ + 1]]
           ELSE /\ tokens' = have
                /\ granted' = granted
                /\ acq' = [acq EXCEPT ![t] =
                             IF blocking
                             THEN [@ EXCEPT !.pc = "sleep", !.n = n, !.calls = call,
                                            !.wake = now + CeilDiv(n - have, rate)]
                             ELSE [@ EXCEPT !.pc = "idle", !.n = n, !.wake = 0,
                                            !.calls = call]]
        /\ UNCHANGED <<rate, capacity, rateSet>>

\* A thread calls acquire(n, blocking), n up to one more than the capacity:
\* the first pass of the loop
loop_acquire(t) ==
    /\ acq[t].pc = "idle"
    /\ acq[t].calls < MaxBucketCalls
    /\ \E n \in 1..(capacity + 1), blocking \in BOOLEAN :
         /\ loop_pass(t, n, blocking)
    /\ UNCHANGED now

\* A pass after time.sleep that deducts without looking at the token count.
loop_retry_unchecked(t) ==
    /\ acq[t].pc = "sleep"
    /\ now >= acq[t].wake
    /\ tokens' = Refilled - acq[t].n
    /\ last_time' = now
    /\ granted' = granted + (IF acq[t].n = 1 THEN 1 ELSE 0)
    /\ acq' = [acq EXCEPT ![t] = [@ EXCEPT !.pc = "idle", !.wake = 0, !.ok = @ + 1]]
    /\ UNCHANGED <<rate, capacity, rateSet, now>>

\* time.sleep(wait_time) is over: the next pass of the loop
loop_retry(t) ==
    /\ acq[t].pc = "sleep"
    /\ now >= acq[t].wake
    /\ loop_pass(t, acq[t].n, TRUE)
    /\ UNCHANGED now

\* The clock of a run without end: up to MaxTime it advances; from then on
\* every time kept in the state moves one tick into the past instead.  A
\* last_time more than MaxCapacity ticks back refills the bucket to its
\* capacity whatever the rate, and a wake-up time in the past is due.
LiveTick ==
    /\ IF now < MaxTime
       THEN /\ now' = now + 1
            /\ UNCHANGED <<last_time, acq>>
       ELSE /\ now' = now
            /\ last_time' = Max(last_time - 1, now - MaxCapacity)
            /\ acq' = [t \in DOMAIN acq |-> [acq[t] EXCEPT !.wake = Max(@ - 1, 0)]]
    /\ UNCHANGED <<tokens, rate, capacity, granted, rateSet>>

\* TokenBucket.__init__ of spider-py: the bucket starts full
LoopBucketInit ==
    /\ capacity \in 1..MaxCapacity
    /\ rate \in 1..MaxRate
    /\ tokens = capacity
    /\ now = 0
    /\ last_time = now
    /\ acq = [t \in Callers |-> LoopIdle]
    /\ granted = 0
    /\ rateSet = FALSE

BucketIdle ==
    /\ capacity = 0
    /\ rate = 0
    /\ tokens = 0
    /\ now = 0
    /\ last_time = 0
    /\ acq = <<>>
    /\ granted = 0
    /\ rateSet = FALSE

(***************************************************************************)
(*          api.py : sessions, the retry wrapper and the API calls         *)
(*                                                                         *)
(* Every API function is wrapped by retry_with_backoff(max_retries=3).     *)
(* The threads that call them are the callers of the global limiter.  A    *)
(* thread steps at each access to shared state (the limiter, the pool,    *)
(* the cached signing key) and at each HTTP request.  The functions catch  *)
(* every exception of their request themselves, so the wrapper's           *)
(* RequestException branch is never entered.  The length of a backoff      *)
(* sleep is left open.  The signing key, once cached, stays valid for an   *)
(* hour, longer than the calls looked at.                                  *)
(***************************************************************************)

\* @retry_with_backoff(max_retries=3), the argument of every decorator
max_retries == 3

\* Bounds of the API model
NumApiThreads == 1    \* threads calling the API functions
MaxCalls == 1         \* API calls one thread makes
NumSigners == 2       \* threads calling get_wbi_mixin_key at the same time
MaxSignerCalls == 2   \* get_wbi_mixin_key calls one such thread makes

ApiThreads == 1..NumApiThreads

\* The decorated functions
Funcs == {"search_videos", "get_video_aid", "get_video_detail",
          "get_main_comments", "get_reply_comments", "get_user_card"}

\* What one HTTP request of an API function can come to: a JSON body with
\* its code (0, the three codes cookie_pool.py lists, one other code), or an
\* exception of the transport.
Outcomes ==
    {[kind |-> "code", code |-> c] : c \in {0, -101, -352, -412, -400}}
        \cup {[kind |-> "exception", code |-> 0]}

NoOutcome == [kind |-> "none", code |-> 0]

\* cookie_pool.is_cookie_error that knows the not-logged-in code only
is_login_error(code) == code = -101

\* cookie_pool.is_cookie_error with every non-zero code taken for a credential error
is_any_error(code) == code # 0

\* cookie_pool.is_cookie_error
is_cookie_error(code) == code \in {-101, -352, -412}

\* A thread that has not created its session
ApiNew == [pc |-> "new", session |-> 0, calls |-> 0, func |-> "", attempt |-> 0,
           outcome |-> NoOutcome, result |-> "none",
           acquired |-> 0, invoked |-> 0, errors |-> 0, marked |-> 0,
           last_marked |-> 0, current_time |-> 0, key |-> 0, cached |-> FALSE,
           delay |-> 0, value |-> << >>]

\* create_session: the session is bound to pool.get_cookie() (0 stands for
\* None: nothing available); the page it then loads is www.bilibili.com, not
\* an API endpoint.
create_session(t) ==
    /\ api[t].pc = "new"
    /\ get_cookie
    /\ api' = [api EXCEPT ![t] =
                 [@ EXCEPT !.pc = "idle",
                           !.session = IF ret' = NoSelection THEN 0
                                       ELSE cookies[ret'.item].value]]
    /\ UNCHANGED <<wbi_mixin_key, wbi_key_expire_time, requests, req>>

\* A worker calls one of the API functions with its session: wrapper, entry
api_call(t) ==
    /\ api[t].pc \in {"idle", "returned"}
    /\ api[t].calls < MaxCalls
    /\ \E f \in Funcs :
         api' = [api EXCEPT ![t] =
                   [ApiNew EXCEPT !.pc = "wait", !.session = api[t].session,
                                  !.calls = api[t].calls + 1, !.func = f]]
    /\ UNCHANGED <<wbi_mixin_key, wbi_key_expire_time, requests, req>>

\* wrapper, line 144: wait_for_token() = acquire(1.0, blocking=True), up to
\* its return or its sleep
api_acquire(t) ==
    /\ api[t].pc = "wait"
    /\ acquire(t, 1, TRUE)
    /\ api' = [api EXCEPT ![t] =
                 IF acq'[t].pc = "sleep" THEN [@ EXCEPT !.pc = "sleep"]
                 ELSE [@ EXCEPT !.pc = "invoke", !.acquired = @ + 1]]
    /\ UNCHANGED <<wbi_mixin_key, wbi_key_expire_time, requests, req>>

\* wait_for_token(), after the sleep of acquire
api_wake(t) ==
    /\ api[t].pc = "sleep"
    /\ acquire_wake(t)
    /\ api' = [api EXCEPT ![t] = [@ EXCEPT !.pc = "invoke", !.acquired = @ + 1]]
    /\ UNCHANGED <<wbi_mixin_key, wbi_key_expire_time, requests, req>>

\* wrapper, line 145: result = func(*args, **kwargs).  get_main_comments
\* first asks for the signing key (line 304), the others build their request.
api_invoke(t) ==
    /\ api[t].pc = "invoke"
    /\ api' = [api EXCEPT ![t] =
                 [@ EXCEPT !.invoked = @ + 1,
                           !.pc = IF api[t].func = "get_main_comments"
                                  THEN "sign" ELSE "request"]]
    /\ UNCHANGED <<wbi_mixin_key, wbi_key_expire_time, requests, req>>

\* WBI_KEY_CACHE_SECONDS, in ticks of the clock (one tick is half an hour)
WBI_KEY_CACHE_SECONDS == 2

\* The fixed key get_wbi_mixin_key returns when the fetch failed (line 89)
FallbackKey == -1

\* The key a fetch started at time `at` obtains.  Keys are told apart by the
\* time their validity ends: the time of the fetch plus the cache period.
FetchedKey(at) == at + WBI_KEY_CACHE_SECONDS

\* get_wbi_mixin_key reads and writes the two globals without a lock; each
\* read and each write is a step of its own.

\* get_wbi_mixin_key, lines 75-76: current_time = time.time(); `if _wbi_mixin_key`
api_sign(t) ==
    /\ api[t].pc = "sign"
    /\ api' = [api EXCEPT ![t] =
                 [@ EXCEPT !.current_time = now, !.key = 0, !.cached = FALSE,
                           !.pc = IF wbi_mixin_key # 0 THEN "sign_expire" ELSE "nav"]]
    /\ UNCHANGED <<wbi_mixin_key, wbi_key_expire_time, requests, req>>

\* line 76: `and current_time < _wbi_key_expire_time`
api_sign_expire(t) ==
    /\ api[t].pc = "sign_expire"
    /\ api' = [api EXCEPT ![t] =
                 [@ EXCEPT !.pc = IF api[t].current_time < wbi_key_expire_time
                                  THEN "sign_return" ELSE "nav"]]
    /\ UNCHANGED <<wbi_mixin_key, wbi_key_expire_time, requests, req>>

\* line 77: return _wbi_mixin_key
api_sign_return(t) ==
    /\ api[t].pc = "sign_return"
    /\ api' = [api EXCEPT ![t] =
                 [@ EXCEPT !.pc = "request", !.key = wbi_mixin_key, !.cached = TRUE]]
    /\ UNCHANGED <<wbi_mixin_key, wbi_key_expire_time, requests, req>>

\* A get_wbi_mixin_key that stores the fallback key it returns.
api_nav_caching(t) ==
    /\ api[t].pc = "nav"
    /\ requests' = requests + 1
    /\ \E got \in BOOLEAN :
         /\ api' = [api EXCEPT ![t] =
                      IF got THEN [@ EXCEPT !.pc = "nav_key"]
                      ELSE [@ EXCEPT !.pc = "request", !.key = FallbackKey]]
         /\ wbi_mixin_key' = IF got THEN wbi_mixin_key ELSE FallbackKey
    /\ UNCHANGED <<wbi_key_expire_time, req>>

\* line 79 and _get_wbi_keys: session.get of /x/web-interface/nav; the answer
\* carries wbi_img or the fetch fails (lines 87-89: the fallback key is returned)
api_nav(t) ==
    /\ api[t].pc = "nav"
    /\ requests' = requests + 1
    /\ \E got \in BOOLEAN :
         api' = [api EXCEPT ![t] =
                   IF got THEN [@ EXCEPT !.pc = "nav_key"]
                   ELSE [@ EXCEPT !.pc = "request", !.key = FallbackKey]]
    /\ UNCHANGED <<wbi_mixin_key, wbi_key_expire_time, req>>

\* line 81: _wbi_mixin_key = _get_mixin_key(img_key + sub_key)
api_nav_key(t) ==
    /\ api[t].pc = "nav_key"
    /\ wbi_mixin_key' = FetchedKey(api[t].current_time)
    /\ api' = [api EXCEPT ![t] = [@ EXCEPT !.pc = "nav_expire"]]
    /\ UNCHANGED <<wbi_key_expire_time, requests, req>>

\* line 82: _wbi_key_expire_time = current_time + WBI_KEY_CACHE_SECONDS
api_nav_expire(t) ==
    /\ api[t].pc = "nav_expire"
    /\ wbi_key_expire_time' = api[t].current_time + WBI_KEY_CACHE_SECONDS
    /\ api' = [api EXCEPT ![t] = [@ EXCEPT !.pc = "nav_return"]]
    /\ UNCHANGED <<wbi_mixin_key, requests, req>>

\* line 84: return _wbi_mixin_key
api_nav_return(t) ==
    /\ api[t].pc = "nav_return"
    /\ api' = [api EXCEPT ![t] = [@ EXCEPT !.pc = "request", !.key = wbi_mixin_key]]
    /\ UNCHANGED <<wbi_mixin_key, wbi_key_expire_time, requests, req>>

\* A thread that is not inside an API call calls get_wbi_mixin_key (as
\* _generate_wbi_sign does, line 98), again once the call has returned
signer_call(t) ==
    /\ api[t].pc \in {"idle", "request"}
    /\ api[t].calls < MaxSignerCalls
    /\ api' = [api EXCEPT ![t] = [@ EXCEPT !.pc = "sign", !.calls = @ + 1]]
    /\ UNCHANGED <<wbi_mixin_key, wbi_key_expire_time, requests, req>>

\* The session.get of an API function and the answer it receives
api_request(t) ==
    /\ api[t].pc = "request"
    /\ requests' = requests + 1
    /\ \E o \in Outcomes :
         api' = [api EXCEPT ![t] =
                   [@ EXCEPT !.pc = "handle", !.outcome = o,
                             !.current_time = 0, !.key = 0, !.cached = FALSE,
                             !.errors = @ + (IF o.kind = "code" /\ o.code \in {-101, -352, -412}
                                                THEN 1 ELSE 0)]]
    /\ UNCHANGED <<wbi_mixin_key, wbi_key_expire_time, req>>

\* _handle_cookie_error(session, code), line 131: the test that guards the
\* call of pool.mark_invalid
marks_cookie(session, code) == is_cookie_error(code) /\ session # 0

\* _handle_cookie_error(session, code)
handle_cookie_error(t, code) ==
    IF marks_cookie(api[t].session, code)
    THEN MarkInvalid(api[t].session, FALSE)
    ELSE UNCHANGED poolVars

\* retry_with_backoff(base_delay, max_delay), the defaults every decorator keeps
base_delay == 1
max_delay == 30

\* random.uniform(0, 1), its two ends
Jitter == {0, 1}

\* lines 153 and 162: min(base_delay * (2 ** attempt) + random.uniform(0, 1), max_delay)
backoff_delay(attempt, jitter) == Min(base_delay * (2 ^ attempt) + jitter, max_delay)

\* The tuple an API function returns when its request succeeded with code 0,
\* element by element (lines 218, 243, 272, 347, 386, 411)
ok_return(func) ==
    CASE func = "search_videos" -> <<"videos", "num_pages", "None">>
      [] func = "get_video_aid" -> <<"aid", "None">>
      [] func = "get_video_detail" -> <<"data", "None">>
      [] func = "get_main_comments" -> <<"replies", "next_cursor", "is_end", "None">>
      [] func = "get_reply_comments" -> <<"replies", "total_count", "None">>
      [] func = "get_user_card" -> <<"data", "None">>

\* The tuple an API function returns itself for a code other than 0 or for an
\* exception (lines 214/221, 247/250, 276/279, 333/350, 380/389, 415/418)
own_error_return(func) ==
    CASE func = "search_videos" -> <<"[]", "0", "error">>
      [] func = "get_video_aid" -> <<"None", "error">>
      [] func = "get_video_detail" -> <<"None", "error">>
      [] func = "get_main_comments" -> <<"[]", "\"\"", "True", "error">>
      [] func = "get_reply_comments" -> <<"[]", "0", "error">>
      [] func = "get_user_card" -> <<"None", "error">>

\* A wrapper that sleeps and tries again after the last attempt too.
AfterErrorAgain(a) == [a EXCEPT !.pc = "backoff", !.outcome = NoOutcome]

\* What the wrapper does with a result whose last element is an error
\* (lines 151-158): sleep and try again while attempt < max_retries, return
\* the result of the function otherwise.
AfterError(a) ==
    IF a.attempt < max_retries
    THEN [a EXCEPT !.pc = "backoff", !.outcome = NoOutcome]
    ELSE [a EXCEPT !.pc = "returned", !.outcome = NoOutcome, !.result = "error",
                   !.value = own_error_return(a.func)]

\* time.sleep(delay) of lines 153-155, when the wrapper sleeps
Sleeping(a, jitter) ==
    IF a.pc = "backoff" THEN [a EXCEPT !.delay = backoff_delay(a.attempt, jitter)] ELSE a

\* The rest of the API function after its request (code != 0: the credential
\* handler, then the error result; an exception: the error result) and of the
\* wrapper's loop body (lines 146-158)
api_handle(t) ==
    /\ api[t].pc = "handle"
    /\ LET o == api[t].outcome
       IN  IF o.kind = "code" /\ o.code = 0
           THEN /\ api' = [api EXCEPT ![t] =
                             [@ EXCEPT !.pc = "returned", !.outcome = NoOutcome,
                                       !.result = "ok", !.value = ok_return(api[t].func)]]
                /\ UNCHANGED poolVars
           ELSE /\ IF o.kind = "code"
                   THEN handle_cookie_error(t, o.code)
                   ELSE UNCHANGED poolVars
                /\ \E jitter \in Jitter :
                     api' = [api EXCEPT ![t] =
                               Sleeping(AfterError(
                                   IF o.kind = "code" /\ marks_cookie(api[t].session, o.code)
                                   THEN [@ EXCEPT !.marked = @ + 1,
                                                  !.last_marked = api[t].session]
                                   ELSE [@ EXCEPT !.last_marked = 0]), jitter)]
    /\ UNCHANGED <<wbi_mixin_key, wbi_key_expire_time, requests, req>>

\* A next attempt that goes straight to the function
NextAttemptNoToken(a) == [a EXCEPT !.pc = "invoke", !.attempt = @ + 1, !.delay = 0]

\* wrapper, lines 141-144: the next iteration of `for attempt in range(...)`
NextAttempt(a) == [a EXCEPT !.pc = "wait", !.attempt = @ + 1, !.delay = 0]

\* wrapper, lines 155-157: time.sleep(delay) is over; continue
api_retry(t) ==
    /\ api[t].pc = "backoff"
    /\ api' = [api EXCEPT ![t] = NextAttempt(@)]
    /\ UNCHANGED <<wbi_mixin_key, wbi_key_expire_time, requests, req>>

\* ---- get_main_comments, lines 289-319: the signed string and the url ----
\* A string is the sequence of its characters ("offset" stands for its six
\* letters); a query string is the sequence of its name=value parts, numbers
\* standing for their decimal digits.

\* Bounds of the request model
MaxCursorLen == 2     \* characters of a cursor
MaxOid == 2           \* largest oid
MaxWts == 1           \* largest int(time.time())

\* Characters a cursor is made of: one that urllib never quotes, the two that
\* only one of the two `safe` arguments keeps, and one that is always quoted
CursorChars == {"A", ":", "/", "\""}

Cursors == UNION {[1..n -> CursorChars] : n \in 0..MaxCursorLen}

\* Characters urllib.parse.quote never quotes (letters, digits, "_.-~")
AlwaysSafe == {"A", "offset"}

\* %XX of a character
PercentEncoded(c) ==
    CASE c = "{" -> <<"%", "7", "B">>
      [] c = "}" -> <<"%", "7", "D">>
      [] c = "\"" -> <<"%", "2", "2">>
      [] c = ":" -> <<"%", "3", "A">>
      [] c = "/" -> <<"%", "2", "F">>

\* urllib.parse.quote(string, safe)
RECURSIVE quote(_, _)
quote(string, safe) ==
    IF string = << >> THEN << >>
    ELSE (IF Head(string) \in AlwaysSafe \cup safe
          THEN <<Head(string)>> ELSE PercentEncoded(Head(string)))
         \o quote(Tail(string), safe)

\* lines 290-293: '{"offset":"%s"}' % cursor, or '{"offset":""}'
pagination_str(cursor) ==
    IF cursor # << >>
    THEN <<"{", "\"", "offset", "\"", ":", "\"">> \o cursor \o <<"\"", "}">>
    ELSE <<"{", "\"", "offset", "\"", ":", "\"", "\"", "}">>

\* mode, plat, type_val, web_location (lines 298-301)
mode == 2
plat == 1
type_val == 1
web_location == 1315875

\* lines 308-311: sign_str, with pagination_str_encoded =
\* urllib.parse.quote(pagination_str) (line 295; safe defaults to "/")
sign_str(oid, cursor, wts) ==
    LET pagination_str_encoded == quote(pagination_str(cursor), {"/"})
    IN  IF cursor # << >>
        THEN << <<"mode", mode>>, <<"oid", oid>>,
                <<"pagination_str", pagination_str_encoded>>, <<"plat", plat>>,
                <<"type", type_val>>, <<"web_location", web_location>>, <<"wts", wts>> >>
        ELSE << <<"mode", mode>>, <<"oid", oid>>,
                <<"pagination_str", pagination_str_encoded>>, <<"plat", plat>>,
                <<"seek_rpid", << >> >>,
                <<"type", type_val>>, <<"web_location", web_location>>, <<"wts", wts>> >>

\* lines 316-319: the query string of url, pagination_str quoted with safe=':'
url_query(oid, cursor, wts, w_rid) ==
    IF cursor # << >>
    THEN << <<"oid", oid>>, <<"type", type_val>>, <<"mode", mode>>,
            <<"pagination_str", quote(pagination_str(cursor), {":"})>>, <<"plat", plat>>,
            <<"web_location", web_location>>, <<"w_rid", w_rid>>, <<"wts", wts>> >>
    ELSE << <<"oid", oid>>, <<"type", type_val>>, <<"mode", mode>>,
            <<"pagination_str", quote(pagination_str(cursor), {":"})>>, <<"plat", plat>>,
            <<"seek_rpid", << >> >>,
            <<"web_location", web_location>>, <<"w_rid", w_rid>>, <<"wts", wts>> >>

\* No request being built
NoRequest == [pc |-> "none", oid |-> 0, cursor |-> << >>, wts |-> 0,
              sign_str |-> << >>, url |-> << >>]

\* get_main_comments(oid, cursor, session) is entered
RequestInit ==
    \E oid \in 1..MaxOid, cursor \in Cursors :
        req = [NoRequest EXCEPT !.pc = "entered", !.oid = oid, !.cursor = cursor]

\* lines 304-311: wts = int(time.time()) and sign_str
build_sign_str ==
    /\ req.pc = "entered"
    /\ \E wts \in 0..MaxWts :
         req' = [req EXCEPT !.pc = "signed", !.wts = wts,
                            !.sign_str = sign_str(req.oid, req.cursor, wts)]
    /\ UNCHANGED <<api, wbi_mixin_key, wbi_key_expire_time, requests>>

\* lines 313-319: w_rid = _md5(sign_str + mixin_key) and url; the digest is a
\* function of the signed string (and of the key), here the string itself
build_url ==
    /\ req.pc = "signed"
    /\ req' = [req EXCEPT !.pc = "built",
                          !.url = url_query(req.oid, req.cursor, req.wts, req.sign_str)]
    /\ UNCHANGED <<api, wbi_mixin_key, wbi_key_expire_time, requests>>

\* get_main_comments is called again, with another cursor
next_request ==
    /\ req.pc = "built"
    /\ \E cursor \in Cursors :
         req' = [NoRequest EXCEPT !.pc = "entered", !.oid = req.oid, !.cursor = cursor]
    /\ UNCHANGED <<api, wbi_mixin_key, wbi_key_expire_time, requests>>

\* The pool and the limiter as get_cookie_pool() / get_rate_limiter() make
\* them, no session yet
ApiInit ==
    /\ api = [t \in ApiThreads |-> ApiNew]
    /\ wbi_mixin_key = 0
    /\ wbi_key_expire_time = 0
    /\ requests = 0
    /\ req = NoRequest

\* The signer alone: threads outside any API call, nothing cached
SignerInit ==
    /\ api = [t \in 1..NumSigners |-> [ApiNew EXCEPT !.pc = "idle"]]
    /\ wbi_mixin_key = 0
    /\ wbi_key_expire_time = 0
    /\ requests = 0
    /\ req = NoRequest

\* No API call in progress (the other components are studied alone)
ApiIdle ==
    /\ api = << >>
    /\ wbi_mixin_key = 0
    /\ wbi_key_expire_time = 0
    /\ requests = 0
    /\ req = NoRequest

(***************************************************************************)
(*        crawler.py / storage.py : the pipeline and its durable state     *)
(*                                                                         *)
(* Threads interleave at the granularity of their accesses to shared       *)
(* state.  An upstream call (api.py) touches none of it, so it is folded   *)
(* into the step that first uses its result; its outcome (data or error)   *)
(* is an input.  The sink (KafkaProducer) is taken to accept every send.   *)
(***************************************************************************)

\* Bounds of the pipeline model
MaxThreads == 2       \* largest n_threads a run is started with
MaxPages == 3         \* largest n_threads * pages_per_thread a run is started with
MaxFaults == 1        \* upstream failures (errors, records without key) per run
MaxRuns == 2          \* runs of the program over the same sent_records/ directory
ResumeThreads == 1    \* largest n_threads of a run that is killed and started again
ResumePages == 1      \* largest pages_per_thread of such a run
LiveThreads == 1      \* largest n_threads of a run checked for termination
MaxCommentPages == 3  \* comment pages of one video looked at when walking its cursors

Workers == 1..MaxThreads

\* ---------------------------------------------------------------- upstream
\* The upstream service: two videos on three search pages (b1 on the first two,
\* b2, listed without its aid, on the third), b1 with two comment pages (two
\* comments, then one), the comment with rpid 1 with one reply, b2 without
\* comments.

Bvids == {"b1", "b2"}

\* str(id) for the numeric ids of the upstream records
Str(n) == IF n \in 1..8 THEN <<"1", "2", "3", "4", "5", "6", "7", "8">>[n] ELSE ""

\* /x/web-interface/search/type, page p: data.result
SearchPage(p) ==
    CASE p = 1 -> << [bvid |-> "b1", aid |-> 1, owner |-> 0] >>
      [] p = 2 -> << [bvid |-> "b1", aid |-> 1, owner |-> 0] >>
      [] p = 3 -> << [bvid |-> "b2", aid |-> 0, owner |-> 0] >>
      [] OTHER -> << >>

\* /x/web-interface/view?bvid=b: data (aid, owner.mid)
ViewData(b) ==
    IF b = "b1" THEN [bvid |-> "b1", aid |-> 1, owner |-> 1]
                ELSE [bvid |-> "b2", aid |-> 2, owner |-> 2]

\* /x/v2/reply/wbi/main, oid = aid, offset = cursor
MainComments(aid, cursor) ==
    CASE aid = 1 /\ cursor = "" ->
            [replies |-> << [rpid |-> 1, mid |-> 2, rcount |-> 1],
                            [rpid |-> 4, mid |-> 1, rcount |-> 0] >>,
             next_offset |-> "A", is_end |-> FALSE]
      [] aid = 1 /\ cursor = "A" ->
            [replies |-> << [rpid |-> 2, mid |-> 1, rcount |-> 0] >>,
             next_offset |-> "", is_end |-> FALSE]
      [] OTHER -> [replies |-> << >>, next_offset |-> "", is_end |-> TRUE]

\* /x/v2/reply/reply, root = rpid, pn = page: data.replies and data.page.count
\* Besides the reply of b1's comment, two threads of a video no search page
\* lists (aid 3): the one under rpid 5 has three replies on two pages, the one
\* under rpid 4 reports two replies and returns one.
ReplyComments(aid, rpid, page) ==
    CASE aid = 1 /\ rpid = 1 /\ page = 1 ->
            [replies |-> << [rpid |-> 3, mid |-> 2, rcount |-> 0] >>, count |-> 1]
      [] aid = 3 /\ rpid = 5 /\ page = 1 ->
            [replies |-> << [rpid |-> 6, mid |-> 1, rcount |-> 0],
                            [rpid |-> 7, mid |-> 2, rcount |-> 0] >>, count |-> 3]
      [] aid = 3 /\ rpid = 5 /\ page = 2 ->
            [replies |-> << [rpid |-> 8, mid |-> 1, rcount |-> 0] >>, count |-> 3]
      [] aid = 3 /\ rpid = 4 /\ page = 1 ->
            [replies |-> << [rpid |-> 8, mid |-> 0, rcount |-> 0] >>, count |-> 2]
      [] aid = 3 /\ rpid = 4 -> [replies |-> << >>, count |-> 2]
      [] OTHER -> [replies |-> << >>, count |-> 1]

\* A page of replies as the service returns it: whole, or (once the service
\* may do so, counted as an upstream failure) with the rpid of one reply missing
Keyless(replies) == {[replies EXCEPT ![k].rpid = 0] : k \in DOMAIN replies}

AsReturned(replies) ==
    {replies} \cup (IF keyless /\ faults < MaxFaults THEN Keyless(replies) ELSE {})

\* A record with a key as the service returns it: with the key or, likewise, without
ReturnedKey(key) == {key} \cup (IF keyless /\ faults < MaxFaults THEN {""} ELSE {})

\* ---------------------------------------------------------------- storage.py

\* save_video, lines 60-62: `if not bvid: return False`
has_bvid(video) == video.bvid # ""

\* A save_comment that does not look at the key
any_rpid(comment) == TRUE

\* save_comment, lines 69-71: `if not rpid: return False`
has_rpid(comment) == comment.rpid # 0

\* save_account, lines 80-82: `if not mid: return False`
has_mid(card) == card.mid # ""

NoEntry == [present |-> FALSE, done |-> FALSE, cursor |-> "", aid |-> 0]

\* save_video_comment_progress(bvid, cursor, aid): the mapping written back
\* (aid 0 stands for None)
save_video_comment_progress(data, bvid, cursor, aid) ==
    LET e == IF data[bvid].present THEN data[bvid]
             ELSE [present |-> TRUE, done |-> FALSE, cursor |-> "", aid |-> 0]
    IN  [data EXCEPT ![bvid] =
            [e EXCEPT !.cursor = cursor, !.aid = IF aid # 0 THEN aid ELSE @]]

\* mark_video_comments_done(bvid): the mapping written back
mark_video_comments_done(data, bvid) ==
    [data EXCEPT ![bvid] =
        [present |-> TRUE, done |-> TRUE, cursor |-> "",
         aid |-> IF data[bvid].present THEN data[bvid].aid ELSE 0]]

\* A progress read that forgets the stored cursor
get_progress_without_cursor(data, bvid) ==
    [done |-> data[bvid].present /\ data[bvid].done, cursor |-> "",
     aid |-> IF data[bvid].present THEN data[bvid].aid ELSE 0]

\* get_video_comment_progress(bvid)
get_video_comment_progress(data, bvid) ==
    IF data[bvid].present
    THEN [done |-> data[bvid].done, cursor |-> data[bvid].cursor, aid |-> data[bvid].aid]
    ELSE [done |-> FALSE, cursor |-> "", aid |-> 0]

\* A send that is lost
NotSent(topic, key) == sink

\* The producer.send calls of the run, with one more for <<topic, key>>
Counted(topic, key) == sends (+) SetToBag({<<topic, key>>})

\* No get_main_comments call yet
NoCall == [called |-> FALSE, cursor |-> "", aid |-> 0]

\* producer.send(topic, key=key, value=...): the sends made so far
Sent(topic, key) == sink \cup {<<topic, key>>}

\* ---------------------------------------------------------------- crawler.py

\* user_mid_queue.put(mid): the queue and the puts made so far
QueuePut(mid_str) ==
    /\ user_mid_queue' = Append(user_mid_queue, mid_str)
    /\ puts' = puts (+) SetToBag({mid_str})

\* _add_user_mid without the test of user_mids (line 53)
add_user_mid_unchecked(mid) ==
    LET mid_str == Str(mid)
    IN  /\ user_mids' = user_mids \cup {mid_str}
        /\ pending_mids' = pending_mids \cup {mid_str}
        /\ QueuePut(mid_str)

\* BiliCrawler._add_user_mid(mid), one critical section of self.lock
add_user_mid(mid) ==
    LET mid_str == Str(mid)
    IN  IF mid_str \notin user_mids
        THEN /\ user_mids' = user_mids \cup {mid_str}
             /\ IF ~(resume /\ mid_str \in saved_mids)
                THEN /\ pending_mids' = pending_mids \cup {mid_str}
                     /\ QueuePut(mid_str)
                ELSE UNCHANGED <<pending_mids, user_mid_queue, puts>>
        ELSE UNCHANGED <<user_mids, pending_mids, user_mid_queue, puts>>

\* Thread records
DetailIdle == [pc |-> "idle", list |-> << >>, detail |-> ViewData("b1")]

RECURSIVE Concat(_)
Concat(ss) == IF ss = << >> THEN << >> ELSE Head(ss) \o Concat(Tail(ss))

\* search_worker(thread_id): the pages i*M+1 .. i*M+M of thread i (0-based),
\* those in `failed` returning an error, the others extending thread_videos
ThreadVideos(i, failed) ==
    Concat([page \in 1..pages_per_thread |->
              LET actual_page == i * pages_per_thread + page
              IN  IF actual_page \in failed THEN << >> ELSE SearchPage(actual_page)])

\* results taken as they are
KeepAll(videos, seen_bvids) == videos

\* unique_videos: the first occurrence of every bvid, in order
RECURSIVE Dedupe(_, _)
Dedupe(videos, seen_bvids) ==
    IF videos = << >> THEN << >>
    ELSE LET v == Head(videos)
         IN  IF v.bvid # "" /\ v.bvid \notin seen_bvids
             THEN <<v>> \o Dedupe(Tail(videos), seen_bvids \cup {v.bvid})
             ELSE Dedupe(Tail(videos), seen_bvids)

SelectVideos(videos, keep(_)) == SelectSeq(videos, keep)

\* video_chunks[j] (1-based) of search_videos_parallel
Chunk(videos, n, j) ==
    LET chunk_size == (Len(videos) + n - 1) \div n
        lo == (j - 1) * chunk_size + 1
        hi == Min(j * chunk_size, Len(videos))
    IN  IF lo > Len(videos) THEN << >> ELSE SubSeq(videos, lo, hi)

\* search_videos_parallel up to the split: the search workers run and are
\* joined (they share nothing with the other threads but `results`, which
\* they extend in the order they finish), then results are deduplicated.
main_search ==
    /\ main.pc = "search"
    /\ \E failed \in SUBSET (1..(n_threads * pages_per_thread)),
          first \in 0..(n_threads - 1) :
         /\ faults + Cardinality(failed) <= MaxFaults
         /\ LET order == <<first>> \o
                         SelectSeq([k \in 1..n_threads |-> k - 1], LAMBDA t : t # first)
                results == Concat([k \in 1..n_threads |-> ThreadVideos(order[k], failed)])
                unique_videos == Dedupe(results, {})
                filter == resume /\ saved_bvids # {}
                IsSaved(v) == v.bvid \in saved_bvids
                IsNew(v) == v.bvid \notin saved_bvids
            IN  /\ main' = [pc |-> "split",
                            skipped |-> IF filter THEN SelectSeq(unique_videos, IsSaved)
                                        ELSE << >>,
                            unique_videos |-> IF filter THEN SelectSeq(unique_videos, IsNew)
                                              ELSE unique_videos]
                /\ faults' = faults + Cardinality(failed)
                /\ video_log' = [video_log EXCEPT
                                   !.found = {unique_videos[k].bvid : k \in 1..Len(unique_videos)}]
    /\ UNCHANGED <<durableVars, configVars, memoryVars, dw, cw, rw, aw, runs, callVars, sends, puts>>

\* search_videos_parallel, lines 119-149: an already saved video goes straight
\* to the comment queue; with no new video the producers-done event is set;
\* otherwise the detail workers are started on their chunks.
main_split ==
    /\ main.pc = "split"
    /\ IF main.skipped # << >>
       THEN /\ video_queue' = Append(video_queue, Head(main.skipped))
            /\ main' = [main EXCEPT !.skipped = Tail(@)]
            /\ video_log' = [video_log EXCEPT
                               !.forwarded = @ (+) SetToBag({Head(main.skipped).bvid})]
            /\ UNCHANGED <<video_producers_done, dw>>
       ELSE IF main.unique_videos = << >>
       THEN /\ video_producers_done' = TRUE
            /\ main' = [main EXCEPT !.pc = "join"]
            /\ UNCHANGED <<video_queue, dw, video_log>>
       ELSE /\ dw' = [i \in Workers |->
                        LET chunk == Chunk(main.unique_videos, n_threads, i)
                        IN  IF chunk = << >> THEN [DetailIdle EXCEPT !.pc = "done"]
                            ELSE [DetailIdle EXCEPT !.pc = "fetch", !.list = chunk]]
            /\ main' = [main EXCEPT !.pc = "detail_join"]
            /\ UNCHANGED <<video_queue, video_producers_done, video_log>>
    /\ UNCHANGED <<durableVars, configVars, saved_bvids, saved_rpids, saved_mids, user_mids,
                   comment_queue, user_mid_queue, comment_producers_done,
                   reply_producers_done, active_comment_workers, active_reply_workers,
                   cw, rw, aw, faults, runs, callVars, sends, puts>>

\* search_videos_parallel, lines 151-154: join the detail workers, then set
\* video_producers_done.
main_detail_join ==
    /\ main.pc = "detail_join"
    /\ \A i \in Workers : dw[i].pc = "done"
    /\ video_producers_done' = TRUE
    /\ main' = [main EXCEPT !.pc = "join"]
    /\ UNCHANGED <<durableVars, configVars, saved_bvids, saved_rpids, saved_mids, user_mids,
                   video_queue, comment_queue, user_mid_queue, comment_producers_done,
                   reply_producers_done, active_comment_workers, active_reply_workers,
                   dw, cw, rw, aw, faults, runs, historyVars>>

\* update_pending_mids(remaining_mids): the file is removed when nothing remains
update_pending_mids(remaining_mids) == remaining_mids

\* run, lines 367-397: join the comment, reply and account workers, then
\* update_pending_mids up to the point where the file is gone (nothing
\* remains: lines 112-115) or has been opened for writing, which empties it
\* (line 117).
main_finish ==
    /\ main.pc = "join"
    /\ \A w \in BagToSet(cw) \cup BagToSet(rw) \cup BagToSet(aw) : w.pc = "done"
    /\ pending_mids' = {}
    /\ main' = [main EXCEPT !.pc = IF user_mids \ saved_mids = {} THEN "done" ELSE "rewrite"]
    /\ UNCHANGED <<sent_videos, sent_comments, sent_accounts, progress, sink,
                   configVars, memoryVars, dw, cw, rw, aw, faults, runs, historyVars>>

\* update_pending_mids, lines 117-119: the mids that remain are written and
\* the file is closed.
main_rewrite ==
    /\ main.pc = "rewrite"
    /\ pending_mids' = update_pending_mids(user_mids \ saved_mids)
    /\ main' = [main EXCEPT !.pc = "done"]
    /\ UNCHANGED <<sent_videos, sent_comments, sent_accounts, progress, sink,
                   configVars, memoryVars, dw, cw, rw, aw, faults, runs, historyVars>>

\* What is left of a detail worker's list after the current video
DetailNext(w) ==
    IF Len(w.list) > 1 THEN [w EXCEPT !.pc = "fetch", !.list = Tail(@)]
    ELSE [w EXCEPT !.pc = "done", !.list = << >>]

\* video_detail_worker, lines 76-82 and save_video up to producer.send:
\* get_video_detail fails (the video is skipped) or returns the record, which
\* is sent with key bvid.
detail_fetch(i) ==
    /\ dw[i].pc = "fetch"
    /\ video_log' = [video_log EXCEPT !.views = @ (+) SetToBag({Head(dw[i].list).bvid})]
    /\ LET video == Head(dw[i].list)
       IN  \/ /\ faults < MaxFaults
              /\ faults' = faults + 1
              /\ dw' = [dw EXCEPT ![i] = DetailNext(@)]
              /\ UNCHANGED <<sink, sends>>
           \/ \E bvid \in ReturnedKey(ViewData(video.bvid).bvid) :
                LET detail == [ViewData(video.bvid) EXCEPT !.bvid = bvid]
                IN  /\ faults' = IF bvid = ViewData(video.bvid).bvid THEN faults ELSE faults + 1
                    /\ IF has_bvid(detail)
                       THEN /\ sink' = Sent("claw_video", detail.bvid)
                            /\ sends' = Counted("claw_video", detail.bvid)
                            /\ dw' = [dw EXCEPT ![i] = [@ EXCEPT !.pc = "record",
                                                                 !.detail = detail]]
                       ELSE /\ dw' = [dw EXCEPT ![i] = DetailNext(@)]
                            /\ UNCHANGED <<sink, sends>>
    /\ UNCHANGED <<sent_videos, sent_comments, sent_accounts, pending_mids, progress,
                   configVars, memoryVars, main, cw, rw, aw, runs, callVars, puts>>

\* save_video, _record_sent_id("sent_videos.txt", bvid) and return True; then
\* video_detail_worker adds bvid to saved_bvids under the lock.
detail_record(i) ==
    /\ dw[i].pc = "record"
    /\ sent_videos' = sent_videos \cup {dw[i].detail.bvid}
    /\ saved_bvids' = saved_bvids \cup {Head(dw[i].list).bvid}
    /\ dw' = [dw EXCEPT ![i] = [@ EXCEPT !.pc = "enqueue"]]
    /\ UNCHANGED <<sent_comments, sent_accounts, pending_mids, progress, sink,
                   configVars, saved_rpids, saved_mids, user_mids,
                   video_queue, comment_queue, user_mid_queue,
                   video_producers_done, comment_producers_done, reply_producers_done,
                   active_comment_workers, active_reply_workers,
                   main, cw, rw, aw, faults, runs, historyVars>>

\* video_detail_worker, lines 86-89: the owner's mid is observed and the
\* detail record is put on the video queue.
detail_enqueue(i) ==
    /\ dw[i].pc = "enqueue"
    /\ IF dw[i].detail.owner # 0
       THEN add_user_mid(dw[i].detail.owner)
       ELSE UNCHANGED <<user_mids, pending_mids, user_mid_queue, puts>>
    /\ video_queue' = Append(video_queue, dw[i].detail)
    /\ dw' = [dw EXCEPT ![i] = DetailNext(@)]
    /\ UNCHANGED <<sent_videos, sent_comments, sent_accounts, progress, sink,
                   configVars, saved_bvids, saved_rpids, saved_mids, comment_queue,
                   video_producers_done, comment_producers_done, reply_producers_done,
                   active_comment_workers, active_reply_workers,
                   main, cw, rw, aw, faults, runs, callVars, sends, video_log>>

\* The workers of a stage are a bag of thread states (a thread's id is only
\* printed): the bag after the thread in state w has moved to state w2.
Put(workers, w, w2) == (workers (-) SetToBag({w})) (+) SetToBag({w2})

\* n threads in state w
Threads(n, w) == [x \in {w} |-> n]

\* ---- comment_worker ----

CommentStart == [pc |-> "start", video |-> ViewData("b1"), aid |-> 0, cursor |-> "",
                 replies |-> << >>, fetched |-> 0, next_cursor |-> "", is_end |-> FALSE]

\* A comment worker between two videos (its locals are dead)
CommentIdle == [CommentStart EXCEPT !.pc = "get"]

\* The rest of the page after the current reply
AfterReply(w) ==
    [w EXCEPT !.replies = Tail(@),
              !.pc = IF Len(w.replies) > 1 THEN "mid" ELSE "page_end"]

\* comment_worker, lines 157-158
comment_start(w) ==
    /\ w.pc = "start"
    /\ active_comment_workers' = active_comment_workers + 1
    /\ cw' = Put(cw, w, [w EXCEPT !.pc = "get"])
    /\ UNCHANGED <<durableVars, configVars, saved_bvids, saved_rpids, saved_mids, user_mids,
                   video_queue, comment_queue, user_mid_queue,
                   video_producers_done, comment_producers_done, reply_producers_done,
                   active_reply_workers, main, dw, rw, aw, faults, runs, historyVars>>

\* comment_worker, line 162: video_queue.get(timeout=2) returns the head, or
\* raises queue.Empty on an empty queue.
comment_get(w) ==
    /\ w.pc = "get"
    /\ IF video_queue # << >>
       THEN /\ video_queue' = Tail(video_queue)
            /\ cw' = Put(cw, w, [w EXCEPT !.pc = "begin", !.video = Head(video_queue)])
       ELSE /\ cw' = Put(cw, w, [w EXCEPT !.pc = "empty"])
            /\ UNCHANGED video_queue
    /\ UNCHANGED <<durableVars, configVars, saved_bvids, saved_rpids, saved_mids, user_mids,
                   comment_queue, user_mid_queue,
                   video_producers_done, comment_producers_done, reply_producers_done,
                   active_comment_workers, active_reply_workers,
                   main, dw, rw, aw, faults, runs, historyVars>>

\* An exit test that never leaves the loop.
AfterEmptyStay(event_is_set, leave) == "get"

\* The exit test of a consuming worker, made after queue.Empty: leave the loop
\* when the upstream event is set, poll again otherwise.
AfterEmpty(event_is_set, leave) == IF event_is_set THEN leave ELSE "get"

\* comment_worker, lines 163-166
comment_empty(w) ==
    /\ w.pc = "empty"
    /\ cw' = Put(cw, w, [w EXCEPT !.pc = AfterEmpty(video_producers_done, "leave")])
    /\ UNCHANGED <<durableVars, configVars, memoryVars, main, dw, rw, aw, faults, runs, historyVars>>

\* comment_worker, lines 168-190: read the progress entry; a video already
\* done is skipped when resuming; the aid comes from the record, else from the
\* progress entry, else from get_video_aid (which may fail); the walk starts at
\* the stored cursor when resuming and at "" otherwise.
comment_begin(w) ==
    /\ w.pc = "begin"
    /\ LET bvid == w.video.bvid
           p == get_video_comment_progress(progress, bvid)
           walk(aid) == Put(cw, w, [w EXCEPT !.pc = "fetch", !.aid = aid,
                                                   !.cursor = IF resume THEN p.cursor ELSE ""])
       IN  IF resume /\ p.done
           THEN cw' = Put(cw, w, CommentIdle) /\ UNCHANGED faults
           ELSE IF w.video.aid # 0
           THEN cw' = walk(w.video.aid) /\ UNCHANGED faults
           ELSE IF p.aid # 0
           THEN cw' = walk(p.aid) /\ UNCHANGED faults
           ELSE \/ /\ faults < MaxFaults
                   /\ faults' = faults + 1
                   /\ cw' = Put(cw, w, CommentIdle)
                \/ /\ cw' = walk(ViewData(bvid).aid)
                   /\ UNCHANGED faults
    /\ UNCHANGED <<durableVars, configVars, memoryVars, main, dw, rw, aw, runs, historyVars>>

\* comment_worker, lines 194-198: get_main_comments(aid, cursor); on error the
\* current cursor is stored and the walk of this video ends.
comment_fetch(w) ==
    /\ w.pc = "fetch"
    /\ first_call' = IF first_call[w.video.bvid].called THEN first_call
                     ELSE [first_call EXCEPT ![w.video.bvid] =
                             [called |-> TRUE, cursor |-> w.cursor, aid |-> w.aid]]
    /\ \/ /\ faults < MaxFaults
          /\ faults' = faults + 1
          /\ progress' = save_video_comment_progress(progress, w.video.bvid,
                                                     w.cursor, w.aid)
          /\ cw' = Put(cw, w, CommentIdle)
          /\ UNCHANGED served
       \/ /\ LET page == MainComments(w.aid, w.cursor)
             IN  /\ \E replies \in AsReturned(page.replies) :
                       /\ cw' = Put(cw, w,
                                    [w EXCEPT !.pc = IF replies = << >> THEN "page_end" ELSE "mid",
                                              !.replies = replies,
                                              !.fetched = Len(replies),
                                              !.next_cursor = page.next_offset,
                                              !.is_end = page.is_end \/ page.next_offset = ""])
                       /\ faults' = IF replies = page.replies THEN faults ELSE faults + 1
                 /\ served' = [served EXCEPT ![w.video.bvid] = @ \cup {page.next_offset}]
          /\ UNCHANGED progress
    /\ UNCHANGED <<sent_videos, sent_comments, sent_accounts, pending_mids, sink,
                   configVars, memoryVars, main, dw, rw, aw, runs, clean, start_progress, sends, puts, video_log>>

\* A worker that passes over a reply without submitting it.
comment_mid_skip(w) ==
    /\ w.pc = "mid"
    /\ cw' = Put(cw, w, AfterReply(w))
    /\ UNCHANGED <<durableVars, configVars, memoryVars, main, dw, rw, aw, faults, runs,
                   historyVars>>

\* comment_worker, lines 201-204: the author's mid is observed.
comment_mid(w) ==
    /\ w.pc = "mid"
    /\ IF Head(w.replies).mid # 0
       THEN add_user_mid(Head(w.replies).mid)
       ELSE UNCHANGED <<user_mids, pending_mids, user_mid_queue, puts>>
    /\ cw' = Put(cw, w, [w EXCEPT !.pc = "emit"])
    /\ UNCHANGED <<sent_videos, sent_comments, sent_accounts, progress, sink,
                   configVars, saved_bvids, saved_rpids, saved_mids,
                   video_queue, comment_queue,
                   video_producers_done, comment_producers_done, reply_producers_done,
                   active_comment_workers, active_reply_workers,
                   main, dw, rw, aw, faults, runs, callVars, sends, video_log>>

\* A comment worker that skips an rpid already saved without queueing it for
\* its replies.
comment_emit_no_requeue(w) ==
    /\ w.pc = "emit"
    /\ LET reply == Head(w.replies)
           rpid == Str(reply.rpid)
       IN  IF (resume /\ rpid \in saved_rpids) \/ ~has_rpid(reply)
           THEN /\ cw' = Put(cw, w, AfterReply(w))
                /\ UNCHANGED <<sink, sends>>
           ELSE /\ sink' = Sent("claw_comment", rpid) /\ sends' = Counted("claw_comment", rpid)
                /\ cw' = Put(cw, w, [w EXCEPT !.pc = "record"])
    /\ UNCHANGED <<sent_videos, sent_comments, sent_accounts, pending_mids, progress,
                   configVars, memoryVars,
                   main, dw, rw, aw, faults, runs, callVars, puts, video_log>>

\* comment_worker, lines 205-211 and save_comment up to producer.send: an
\* rpid already saved is skipped when resuming (its replies are still queued
\* when rcount > 0); otherwise the comment is sent with key str(rpid).
comment_emit(w) ==
    /\ w.pc = "emit"
    /\ LET reply == Head(w.replies)
           rpid == Str(reply.rpid)
       IN  IF resume /\ rpid \in saved_rpids
           THEN /\ comment_queue' = IF reply.rcount > 0
                                    THEN Append(comment_queue, [aid |-> w.aid, rpid |-> reply.rpid])
                                    ELSE comment_queue
                /\ cw' = Put(cw, w, AfterReply(w))
                /\ UNCHANGED <<sink, sends>>
           ELSE IF ~has_rpid(reply)
           THEN /\ cw' = Put(cw, w, AfterReply(w))
                /\ UNCHANGED <<sink, sends, comment_queue>>
           ELSE /\ sink' = Sent("claw_comment", rpid) /\ sends' = Counted("claw_comment", rpid)
                /\ cw' = Put(cw, w, [w EXCEPT !.pc = "record"])
                /\ UNCHANGED comment_queue
    /\ UNCHANGED <<sent_videos, sent_comments, sent_accounts, pending_mids, progress,
                   configVars, saved_bvids, saved_rpids, saved_mids, user_mids,
                   video_queue, user_mid_queue,
                   video_producers_done, comment_producers_done, reply_producers_done,
                   active_comment_workers, active_reply_workers,
                   main, dw, rw, aw, faults, runs, callVars, puts, video_log>>

\* save_comment, _record_sent_id("sent_comments.txt", rpid) and return True;
\* then comment_worker, lines 212-217: rpid joins saved_rpids and a comment
\* with replies is put on the comment queue.
comment_record(w) ==
    /\ w.pc = "record"
    /\ LET reply == Head(w.replies)
       IN  /\ sent_comments' = sent_comments \cup {Str(reply.rpid)}
           /\ saved_rpids' = saved_rpids \cup {Str(reply.rpid)}
           /\ comment_queue' = IF reply.rcount > 0
                               THEN Append(comment_queue, [aid |-> w.aid, rpid |-> reply.rpid])
                               ELSE comment_queue
    /\ cw' = Put(cw, w, AfterReply(w))
    /\ UNCHANGED <<sent_videos, sent_accounts, pending_mids, progress, sink,
                   configVars, saved_bvids, saved_mids, user_mids,
                   video_queue, user_mid_queue,
                   video_producers_done, comment_producers_done, reply_producers_done,
                   active_comment_workers, active_reply_workers,
                   main, dw, rw, aw, faults, runs, historyVars>>

\* comment_worker, lines 219-225: at the end of the stream the video is marked
\* done; otherwise the next cursor is stored and the next page is fetched.
comment_page_end(w) ==
    /\ w.pc = "page_end"
    /\ IF w.is_end \/ w.fetched = 0
       THEN /\ progress' = mark_video_comments_done(progress, w.video.bvid)
            /\ cw' = Put(cw, w, CommentIdle)
       ELSE /\ progress' = save_video_comment_progress(progress, w.video.bvid,
                                                       w.next_cursor, w.aid)
            /\ cw' = Put(cw, w, [w EXCEPT !.pc = "fetch", !.cursor = w.next_cursor,
                                            !.fetched = 0, !.next_cursor = "", !.is_end = FALSE])
    /\ UNCHANGED <<sent_videos, sent_comments, sent_accounts, pending_mids, sink,
                   configVars, memoryVars, main, dw, rw, aw, faults, runs, historyVars>>

\* comment_worker, lines 229-232: the last worker out sets comment_producers_done.
comment_leave(w) ==
    /\ w.pc = "leave"
    /\ active_comment_workers' = active_comment_workers - 1
    /\ comment_producers_done' = (comment_producers_done \/ active_comment_workers' = 0)
    /\ cw' = Put(cw, w, [w EXCEPT !.pc = "done"])
    /\ UNCHANGED <<durableVars, configVars, saved_bvids, saved_rpids, saved_mids, user_mids,
                   video_queue, comment_queue, user_mid_queue,
                   video_producers_done, reply_producers_done,
                   active_reply_workers, main, dw, rw, aw, faults, runs, historyVars>>

\* ---- reply_worker ----

ReplyStart == [pc |-> "start", aid |-> 0, rpid |-> 0, page |-> 1, total_fetched |-> 0,
               total_count |-> 0, replies |-> << >>]

\* A reply worker between two comments (its locals are dead)
ReplyIdle == [ReplyStart EXCEPT !.pc = "get"]

\* A walk that goes on to the next page whatever it has counted.
AfterSubReplyOn(w, n) ==
    IF Len(w.replies) > 1
    THEN [w EXCEPT !.replies = Tail(@), !.total_fetched = @ + n, !.pc = "mid"]
    ELSE [w EXCEPT !.replies = << >>, !.total_fetched = @ + n, !.pc = "fetch",
                   !.page = @ + 1]

\* The rest of the page after the current reply (which counted `n` toward
\* total_fetched); after the last one, lines 275-278: stop at total_count,
\* else fetch the next page.
AfterSubReply(w, n) ==
    LET total == w.total_fetched + n
    IN  IF Len(w.replies) > 1
        THEN [w EXCEPT !.replies = Tail(@), !.total_fetched = total, !.pc = "mid"]
        ELSE IF total >= w.total_count
        THEN ReplyIdle
        ELSE [w EXCEPT !.replies = << >>, !.total_fetched = total, !.pc = "fetch",
                       !.page = @ + 1]

\* reply_worker, lines 235-236
reply_start(w) ==
    /\ w.pc = "start"
    /\ active_reply_workers' = active_reply_workers + 1
    /\ rw' = Put(rw, w, [w EXCEPT !.pc = "get"])
    /\ UNCHANGED <<durableVars, configVars, saved_bvids, saved_rpids, saved_mids, user_mids,
                   video_queue, comment_queue, user_mid_queue,
                   video_producers_done, comment_producers_done, reply_producers_done,
                   active_comment_workers, main, dw, cw, aw, faults, runs, historyVars>>

\* reply_worker, lines 240 and 246-251
reply_get(w) ==
    /\ w.pc = "get"
    /\ IF comment_queue # << >>
       THEN /\ comment_queue' = Tail(comment_queue)
            /\ rw' = Put(rw, w, [w EXCEPT !.pc = "fetch",
                                                 !.aid = Head(comment_queue).aid,
                                                 !.rpid = Head(comment_queue).rpid,
                                                 !.page = 1, !.total_fetched = 0])
       ELSE /\ rw' = Put(rw, w, [w EXCEPT !.pc = "empty"])
            /\ UNCHANGED comment_queue
    /\ UNCHANGED <<durableVars, configVars, saved_bvids, saved_rpids, saved_mids, user_mids,
                   video_queue, user_mid_queue,
                   video_producers_done, comment_producers_done, reply_producers_done,
                   active_comment_workers, active_reply_workers,
                   main, dw, cw, aw, faults, runs, historyVars>>

\* reply_worker, lines 241-244
reply_empty(w) ==
    /\ w.pc = "empty"
    /\ rw' = Put(rw, w, [w EXCEPT !.pc = AfterEmpty(comment_producers_done, "leave")])
    /\ UNCHANGED <<durableVars, configVars, memoryVars, main, dw, cw, aw, faults, runs, historyVars>>

\* reply_worker, lines 253-259: get_reply_comments(aid, rpid, page); an error
\* or an empty page ends the walk of this comment.
reply_fetch(w) ==
    /\ w.pc = "fetch"
    /\ \/ /\ faults < MaxFaults
          /\ faults' = faults + 1
          /\ rw' = Put(rw, w, ReplyIdle)
       \/ LET r == ReplyComments(w.aid, w.rpid, w.page)
          IN  \E replies \in AsReturned(r.replies) :
                /\ rw' = Put(rw, w, IF replies = << >> THEN ReplyIdle
                                    ELSE [w EXCEPT !.pc = "mid",
                                                   !.replies = replies,
                                                   !.total_count = r.count])
                /\ faults' = IF replies = r.replies THEN faults ELSE faults + 1
    /\ UNCHANGED <<durableVars, configVars, memoryVars, main, dw, cw, aw, runs, historyVars>>

\* reply_worker, lines 262-265
reply_mid(w) ==
    /\ w.pc = "mid"
    /\ IF Head(w.replies).mid # 0
       THEN add_user_mid(Head(w.replies).mid)
       ELSE UNCHANGED <<user_mids, pending_mids, user_mid_queue, puts>>
    /\ rw' = Put(rw, w, [w EXCEPT !.pc = "emit"])
    /\ UNCHANGED <<sent_videos, sent_comments, sent_accounts, progress, sink,
                   configVars, saved_bvids, saved_rpids, saved_mids,
                   video_queue, comment_queue,
                   video_producers_done, comment_producers_done, reply_producers_done,
                   active_comment_workers, active_reply_workers,
                   main, dw, cw, aw, faults, runs, callVars, sends, video_log>>

\* reply_worker, lines 266-269 and save_comment up to producer.send
reply_emit(w) ==
    /\ w.pc = "emit"
    /\ LET reply == Head(w.replies)
           reply_rpid == Str(reply.rpid)
       IN  IF resume /\ reply_rpid \in saved_rpids
           THEN rw' = Put(rw, w, AfterSubReply(w, 1)) /\ UNCHANGED <<sink, sends>>
           ELSE IF ~has_rpid(reply)
           THEN rw' = Put(rw, w, AfterSubReply(w, 0)) /\ UNCHANGED <<sink, sends>>
           ELSE /\ sink' = Sent("claw_comment", reply_rpid) /\ sends' = Counted("claw_comment", reply_rpid)
                /\ rw' = Put(rw, w, [w EXCEPT !.pc = "record"])
    /\ UNCHANGED <<sent_videos, sent_comments, sent_accounts, pending_mids, progress,
                   configVars, memoryVars, main, dw, cw, aw, faults, runs, callVars, puts, video_log>>

\* save_comment, _record_sent_id and return True; reply_worker, lines 270-273
reply_record(w) ==
    /\ w.pc = "record"
    /\ sent_comments' = sent_comments \cup {Str(Head(w.replies).rpid)}
    /\ saved_rpids' = saved_rpids \cup {Str(Head(w.replies).rpid)}
    /\ rw' = Put(rw, w, AfterSubReply(w, 1))
    /\ UNCHANGED <<sent_videos, sent_accounts, pending_mids, progress, sink,
                   configVars, saved_bvids, saved_mids, user_mids,
                   video_queue, comment_queue, user_mid_queue,
                   video_producers_done, comment_producers_done, reply_producers_done,
                   active_comment_workers, active_reply_workers,
                   main, dw, cw, aw, faults, runs, historyVars>>

\* reply_worker, lines 282-285: the last worker out sets reply_producers_done.
reply_leave(w) ==
    /\ w.pc = "leave"
    /\ active_reply_workers' = active_reply_workers - 1
    /\ reply_producers_done' = (reply_producers_done \/ active_reply_workers' = 0)
    /\ rw' = Put(rw, w, [w EXCEPT !.pc = "done"])
    /\ UNCHANGED <<durableVars, configVars, saved_bvids, saved_rpids, saved_mids, user_mids,
                   video_queue, comment_queue, user_mid_queue,
                   video_producers_done, comment_producers_done,
                   active_comment_workers, main, dw, cw, aw, faults, runs, historyVars>>

\* ---- account_worker ----

AccountStart == [pc |-> "get", mid |-> ""]

\* account_worker, line 290
account_get(w) ==
    /\ w.pc = "get"
    /\ IF user_mid_queue # << >>
       THEN /\ user_mid_queue' = Tail(user_mid_queue)
            /\ aw' = Put(aw, w, [pc |-> "card", mid |-> Head(user_mid_queue)])
       ELSE /\ aw' = Put(aw, w, [w EXCEPT !.pc = "empty"])
            /\ UNCHANGED user_mid_queue
    /\ UNCHANGED <<durableVars, configVars, saved_bvids, saved_rpids, saved_mids, user_mids,
                   video_queue, comment_queue,
                   video_producers_done, comment_producers_done, reply_producers_done,
                   active_comment_workers, active_reply_workers,
                   main, dw, cw, rw, faults, runs, historyVars>>

\* account_worker, lines 291-294
account_empty(w) ==
    /\ w.pc = "empty"
    /\ aw' = Put(aw, w, [w EXCEPT !.pc = AfterEmpty(reply_producers_done, "done")])
    /\ UNCHANGED <<durableVars, configVars, memoryVars, main, dw, cw, rw, faults, runs, historyVars>>

\* account_worker, lines 296-305 and save_account up to producer.send: a mid
\* already saved is skipped when resuming; get_user_card may fail; its card is
\* sent with key str(card.mid), the mid that was asked for.
account_card(w) ==
    /\ w.pc = "card"
    /\ IF resume /\ w.mid \in saved_mids
       THEN aw' = Put(aw, w, AccountStart) /\ UNCHANGED <<sink, sends, faults>>
       ELSE \/ /\ faults < MaxFaults
               /\ faults' = faults + 1
               /\ aw' = Put(aw, w, AccountStart)
               /\ UNCHANGED <<sink, sends>>
            \/ \E mid \in ReturnedKey(w.mid) :
                 LET card == [mid |-> mid]
                 IN  /\ faults' = IF mid = w.mid THEN faults ELSE faults + 1
                     /\ IF has_mid(card)
                        THEN /\ sink' = Sent("claw_account", card.mid)
                             /\ sends' = Counted("claw_account", card.mid)
                             /\ aw' = Put(aw, w, [w EXCEPT !.pc = "record"])
                        ELSE /\ aw' = Put(aw, w, AccountStart)
                             /\ UNCHANGED <<sink, sends>>
    /\ UNCHANGED <<sent_videos, sent_comments, sent_accounts, pending_mids, progress,
                   configVars, memoryVars, main, dw, cw, rw, runs, callVars, puts, video_log>>

\* save_account, _record_sent_id("sent_accounts.txt", mid) and return True;
\* account_worker, lines 306-308
account_record(w) ==
    /\ w.pc = "record"
    /\ sent_accounts' = sent_accounts \cup {w.mid}
    /\ saved_mids' = saved_mids \cup {w.mid}
    /\ aw' = Put(aw, w, AccountStart)
    /\ UNCHANGED <<sent_videos, sent_comments, pending_mids, progress, sink,
                   configVars, saved_bvids, saved_rpids, user_mids,
                   video_queue, comment_queue, user_mid_queue,
                   video_producers_done, comment_producers_done, reply_producers_done,
                   active_comment_workers, active_reply_workers,
                   main, dw, cw, rw, faults, runs, historyVars>>

\* ---- a run of the program ----

MainStart == [pc |-> "search", skipped |-> << >>, unique_videos |-> << >>]

\* The orders in which `for mid in pending_mids` may visit a set
Orders(S) == {s \in [1..Cardinality(S) -> S] : SeqRange(s) = S}

\* BiliCrawler.__init__ (lines 16-45) and run up to the start of the workers
\* (lines 350-363), over the files ledger_v, ledger_c, ledger_a and pending:
\* the values of the in-memory state, the queue of restored mids being `order`.
RunStarted(r, n, m, ledger_v, ledger_c, ledger_a, order) ==
    [resume |-> r, n_threads |-> n, pages_per_thread |-> m,
     saved_bvids |-> IF r THEN ledger_v ELSE {},
     saved_rpids |-> IF r THEN ledger_c ELSE {},
     saved_mids |-> IF r THEN ledger_a ELSE {},
     user_mids |-> SeqRange(order),
     user_mid_queue |-> order,
     puts |-> [mid \in SeqRange(order) |-> Cardinality({k \in DOMAIN order : order[k] = mid})],
     video_log |-> [emitted |-> ledger_v, found |-> {},
                    forwarded |-> EmptyBag, views |-> EmptyBag],
     cw |-> Threads(n, CommentStart),
     rw |-> Threads(n, ReplyStart),
     aw |-> Threads(n, AccountStart)]

\* The mids run restores from pending_mids.txt (lines 350-357)
Restored(r, pending, ledger_a) == IF r THEN pending \ ledger_a ELSE {}

\* The (resume, n_threads, pages_per_thread) a run of at most `threads`
\* threads per stage and `pages` pages per thread is started with
Configs(threads, pages) ==
    {c \in BOOLEAN \X (1..threads) \X (1..pages) : c[2] * c[3] <= MaxPages}

\* A run started, with resume one of `resumes`, over a sent_records/ directory
\* whose only content is the ledger of videos ledger_v, left by runs that sent
\* those videos and were killed before any comment was asked for
PipeOver(ledger_v, resumes, threads, pages) ==
    /\ sent_videos = ledger_v /\ sent_comments = {} /\ sent_accounts = {}
    /\ pending_mids = {}
    /\ progress = [b \in Bvids |-> NoEntry]
    /\ sink = {<<"claw_video", b>> : b \in ledger_v}
    /\ \E c \in Configs(threads, pages) :
         LET s == RunStarted(c[1], c[2], c[3], ledger_v, {}, {}, << >>)
         IN  /\ c[1] \in resumes
             /\ resume = s.resume /\ n_threads = s.n_threads
             /\ pages_per_thread = s.pages_per_thread
             /\ saved_bvids = s.saved_bvids /\ saved_rpids = s.saved_rpids
             /\ saved_mids = s.saved_mids /\ user_mids = s.user_mids
             /\ user_mid_queue = s.user_mid_queue /\ puts = s.puts
             /\ video_log = s.video_log
             /\ cw = s.cw /\ rw = s.rw /\ aw = s.aw
    /\ video_queue = << >> /\ comment_queue = << >>
    /\ video_producers_done = FALSE
    /\ comment_producers_done = FALSE
    /\ reply_producers_done = FALSE
    /\ active_comment_workers = 0 /\ active_reply_workers = 0
    /\ main = MainStart
    /\ dw = [i \in Workers |-> DetailIdle]
    /\ faults = 0
    /\ runs = IF ledger_v = {} THEN 1 ELSE 2
    /\ served = [b \in Bvids |-> {}]
    /\ clean = (ledger_v = {})
    /\ start_progress = [b \in Bvids |-> NoEntry]
    /\ first_call = [b \in Bvids |-> NoCall]
    /\ sends = EmptyBag

\* The first run, over an empty sent_records/ directory
PipeInit(threads, pages) == PipeOver({}, BOOLEAN, threads, pages) /\ keyless = FALSE

\* A resumed run over the ledger of videos that earlier runs left
RerunInit ==
    /\ \E ledger_v \in (SUBSET Bvids) \ {{}} :
         PipeOver(ledger_v, {TRUE}, MaxThreads, MaxPages)
    /\ keyless = FALSE

\* A first run against a service that may return records without their key
KeylessInit == PipeOver({}, BOOLEAN, MaxThreads, MaxPages) /\ keyless = TRUE

\* The process ends (it returned from run, or it was killed at any point) and
\* the program is started again over the same sent_records/ directory and sink,
\* with the same thread and page counts.
Restart ==
    /\ runs < MaxRuns
    /\ runs' = runs + 1
    /\ \E r \in BOOLEAN :
       \E order \in Orders(Restored(r, pending_mids, sent_accounts)) :
         LET s == RunStarted(r, n_threads, pages_per_thread,
                             sent_videos, sent_comments, sent_accounts, order)
         IN  /\ resume' = s.resume /\ n_threads' = s.n_threads
             /\ pages_per_thread' = s.pages_per_thread
             /\ saved_bvids' = s.saved_bvids /\ saved_rpids' = s.saved_rpids
             /\ saved_mids' = s.saved_mids /\ user_mids' = s.user_mids
             /\ user_mid_queue' = s.user_mid_queue /\ puts' = s.puts
             /\ video_log' = s.video_log
             /\ cw' = s.cw /\ rw' = s.rw /\ aw' = s.aw
    /\ video_queue' = << >> /\ comment_queue' = << >>
    /\ video_producers_done' = FALSE
    /\ comment_producers_done' = FALSE
    /\ reply_producers_done' = FALSE
    /\ active_comment_workers' = 0 /\ active_reply_workers' = 0
    /\ main' = MainStart
    /\ dw' = [i \in Workers |-> DetailIdle]
    /\ faults' = 0
    /\ start_progress' = progress
    /\ first_call' = [b \in Bvids |-> NoCall]
    /\ sends' = EmptyBag
    /\ clean' = (clean /\ resume /\ faults = 0 /\ main.pc = "done")
    /\ UNCHANGED <<durableVars, served, keyless>>

\* The comments the reply workers are handed in the walks studied on their own
WalkParents ==
    LET p == [aid |-> 3, rpid |-> 5]
        q == [aid |-> 3, rpid |-> 4]
    IN  {<<p>>, <<q>>, <<p, q>>, <<q, p>>}

\* A run whose comment workers have left, having put the comments of one of
\* WalkParents on the comment queue, over a ledger of comments that holds
\* some of their replies; the reply workers are about to start.
ReplyWalkInit ==
    /\ sent_videos = {} /\ sent_accounts = {} /\ pending_mids = {}
    /\ \E ledger_c \in SUBSET {"6", "7", "8"} :
         /\ sent_comments = ledger_c
         /\ sink = {<<"claw_comment", r>> : r \in ledger_c}
         /\ resume \in BOOLEAN
         /\ saved_rpids = IF resume THEN ledger_c ELSE {}
    /\ progress = [b \in Bvids |-> NoEntry]
    /\ n_threads \in 1..MaxThreads /\ pages_per_thread = 1 /\ keyless \in BOOLEAN
    /\ saved_bvids = {} /\ saved_mids = {} /\ user_mids = {}
    /\ video_queue = << >> /\ user_mid_queue = << >>
    /\ comment_queue \in WalkParents
    /\ video_producers_done = TRUE
    /\ comment_producers_done = TRUE
    /\ reply_producers_done = FALSE
    /\ active_comment_workers = 0 /\ active_reply_workers = 0
    /\ main = [MainStart EXCEPT !.pc = "join"]
    /\ dw = [i \in Workers |-> [DetailIdle EXCEPT !.pc = "done"]]
    /\ cw = Threads(n_threads, [CommentStart EXCEPT !.pc = "done"])
    /\ rw = Threads(n_threads, ReplyStart)
    /\ aw = Threads(n_threads, AccountStart)
    /\ faults = 0
    /\ runs = 1
    /\ served = [b \in Bvids |-> {}]
    /\ clean = TRUE
    /\ start_progress = [b \in Bvids |-> NoEntry]
    /\ first_call = [b \in Bvids |-> NoCall]
    /\ sends = EmptyBag /\ puts = EmptyBag
    /\ video_log = [emitted |-> {}, found |-> {}, forwarded |-> EmptyBag, views |-> EmptyBag]

\* The pipeline not running (the pool and the limiter are studied alone)
PipeIdle ==
    /\ sent_videos = {} /\ sent_comments = {} /\ sent_accounts = {}
    /\ pending_mids = {}
    /\ progress = [b \in Bvids |-> NoEntry]
    /\ sink = {}
    /\ resume = TRUE /\ n_threads = 1 /\ pages_per_thread = 1 /\ keyless = FALSE
    /\ saved_bvids = {} /\ saved_rpids = {} /\ saved_mids = {} /\ user_mids = {}
    /\ video_queue = << >> /\ comment_queue = << >> /\ user_mid_queue = << >>
    /\ video_producers_done = FALSE
    /\ comment_producers_done = FALSE
    /\ reply_producers_done = FALSE
    /\ active_comment_workers = 0 /\ active_reply_workers = 0
    /\ main = MainStart
    /\ dw = [i \in Workers |-> DetailIdle]
    /\ cw = Threads(1, CommentStart)
    /\ rw = Threads(1, ReplyStart)
    /\ aw = Threads(1, AccountStart)
    /\ faults = 0
    /\ runs = 1
    /\ served = [b \in Bvids |-> {}]
    /\ clean = TRUE
    /\ start_progress = [b \in Bvids |-> NoEntry]
    /\ first_call = [b \in Bvids |-> NoCall]
    /\ sends = EmptyBag /\ puts = EmptyBag
    /\ video_log = [emitted |-> {}, found |-> {}, forwarded |-> EmptyBag, views |-> EmptyBag]


(***************************************************************************)
(*        crawler.py : the search fan-out and the split into chunks        *)
(*                                                                         *)
(* search_videos_parallel with its search workers taken one page at a      *)
(* time, up to the chunks handed to the detail workers.  Every page of the *)
(* upstream service lists three videos, the last of them again on the next *)
(* page; a page request may fail.                                          *)
(***************************************************************************)

\* Bounds of the fan-out model
MaxSearchThreads == 3   \* largest n_threads
MaxSearchPages == 4     \* largest n_threads * pages_per_thread

\* bvid of the k-th video the upstream service lists
FanBvid(k) == "v" \o ToString(k)

\* search_videos(keyword, page=p): the videos of page p
Listing(p) ==
    << [bvid |-> FanBvid(2 * p - 1)], [bvid |-> FanBvid(2 * p)], [bvid |-> FanBvid(2 * p + 1)] >>

\* search_worker, line 62: the page number thread thread_id asks for in round `page`
ActualPageShifted(thread_id, pages, page) == thread_id + page
ActualPage(thread_id, pages, page) == thread_id * pages + page

SearchStart == [pc |-> "page", page |-> 1, thread_videos |-> << >>, requested |-> << >>]

\* search_worker, lines 61-70: one round of the loop.  The page is requested;
\* an error is printed and the loop goes on, a result extends thread_videos.
search_request(i) ==
    /\ sw[i].pc = "page"
    /\ LET actual_page == ActualPage(i, fan.pages_per_thread, sw[i].page)
       IN  \E error \in BOOLEAN :
             sw' = [sw EXCEPT ![i] =
                      [pc |-> IF sw[i].page = fan.pages_per_thread THEN "extend" ELSE "page",
                       page |-> IF sw[i].page = fan.pages_per_thread THEN sw[i].page
                                ELSE sw[i].page + 1,
                       thread_videos |-> IF error THEN sw[i].thread_videos
                                         ELSE sw[i].thread_videos \o Listing(actual_page),
                       requested |-> Append(sw[i].requested, actual_page)]]
    /\ UNCHANGED fan

\* search_worker, lines 71-72: results.extend(thread_videos) under the lock
search_extend(i) ==
    /\ sw[i].pc = "extend"
    /\ fan' = [fan EXCEPT !.results = @ \o sw[i].thread_videos]
    /\ sw' = [sw EXCEPT ![i].pc = "done"]

\* search_videos_parallel, lines 140-141: video_chunks
VideoChunks(unique_videos, n) ==
    LET chunk_size == (Len(unique_videos) + n - 1) \div n
        count == (Len(unique_videos) + chunk_size - 1) \div chunk_size
    IN  [j \in 1..count |-> Chunk(unique_videos, n, j)]

\* search_videos_parallel, lines 110-141: the search workers are joined, the
\* results deduplicated, the videos already saved put on the video queue and
\* the others cut into chunks.
search_join ==
    /\ fan.pc = "search"
    /\ \A i \in DOMAIN sw : sw[i].pc = "done"
    /\ LET unique_videos == Dedupe(fan.results, {})
           filter == fan.resume /\ fan.saved_bvids # {}
           IsSaved(v) == v.bvid \in fan.saved_bvids
           IsNew(v) == v.bvid \notin fan.saved_bvids
           new_videos == IF filter THEN SelectSeq(unique_videos, IsNew) ELSE unique_videos
       IN  fan' = [fan EXCEPT
                     !.pc = "chunked",
                     !.video_queue = IF filter THEN SelectSeq(unique_videos, IsSaved)
                                     ELSE << >>,
                     !.unique_videos = new_videos,
                     !.video_chunks = IF new_videos = << >> THEN << >>
                                      ELSE VideoChunks(new_videos, fan.n_threads)]
    /\ UNCHANGED sw

\* search_videos_parallel(keyword, n_threads, pages_per_thread) with its search
\* workers started (lines 99-108)
FanStart(r, saved, n, m) ==
    [pc |-> "search", resume |-> r, saved_bvids |-> saved,
     n_threads |-> n, pages_per_thread |-> m,
     results |-> << >>, video_queue |-> << >>,
     unique_videos |-> << >>, video_chunks |-> << >>]

FanInit ==
    \E n \in 1..MaxSearchThreads, m \in 1..MaxSearchPages,
       r \in BOOLEAN, saved \in {{}, {FanBvid(2)}} :
         /\ n * m <= MaxSearchPages
         /\ fan = FanStart(r, saved, n, m)
         /\ sw = [i \in 0..(n - 1) |-> SearchStart]

\* No search running
FanIdle ==
    /\ fan = [FanStart(FALSE, {}, 1, 1) EXCEPT !.pc = "idle"]
    /\ sw = << >>

(***************************************************************************)
(*                  storage.py : the progress store, by steps              *)
(*                                                                         *)
(* save_video_comment_progress, mark_video_comments_done and               *)
(* get_video_comment_progress called by comment workers, each on its own   *)
(* video, with _load_progress_data and _save_progress_data taken step by   *)
(* step: open(filepath, "w") truncates the file, json.dump then writes it. *)
(***************************************************************************)

\* Bounds of the store model
NumStoreThreads == 2   \* comment workers calling the store
MaxStoreCalls == 2     \* calls of the store per worker and process
MaxCrashes == 1        \* times the process is killed

StoreThreads == 1..NumStoreThreads

\* The video whose comments worker t is walking
BvidOf(t) == IF t = 1 THEN "b1" ELSE "b2"

NoData == [b \in Bvids |-> NoEntry]

\* _load_progress_data: {} when the file does not exist or does not parse
load_progress_data(file) == IF file.valid THEN file.data ELSE NoData

StoreIdleCall == [pc |-> "idle", op |-> "get", bvid |-> "b1", cursor |-> "", aid |-> 0,
                  data |-> NoData, result |-> get_video_comment_progress(NoData, "b1"),
                  calls |-> 0]

\* A comment worker calls one of the three functions
store_call(t) ==
    /\ store[t].pc = "idle"
    /\ store[t].calls < MaxStoreCalls
    /\ \E op \in {"save", "mark", "get"}, cursor \in {"", "A"}, aid \in {0, 1} :
         /\ op # "save" => cursor = "" /\ aid = 0
         /\ store' = [store EXCEPT ![t] = [@ EXCEPT !.pc = "lock", !.op = op,
                                                    !.bvid = BvidOf(t), !.cursor = cursor,
                                                    !.aid = aid, !.calls = @ + 1]]
    /\ UNCHANGED <<progress_file, progress_lock, applied, crashes>>

\* A lock that is never held
store_lock_unguarded(t) ==
    /\ store[t].pc = "lock"
    /\ progress_lock' = t
    /\ store' = [store EXCEPT ![t].pc = "load"]
    /\ UNCHANGED <<progress_file, applied, crashes>>

\* `with _progress_lock:` entered
store_lock(t) ==
    /\ store[t].pc = "lock"
    /\ progress_lock = 0
    /\ progress_lock' = t
    /\ store' = [store EXCEPT ![t].pc = "load"]
    /\ UNCHANGED <<progress_file, applied, crashes>>

\* What a call makes of the mapping it is applied to
Applied(c, data) ==
    CASE c.op = "save" -> save_video_comment_progress(data, c.bvid, c.cursor, c.aid)
      [] c.op = "mark" -> mark_video_comments_done(data, c.bvid)
      [] OTHER -> data

\* data = _load_progress_data() and the change of the entry in memory
\* (lines 161-166, 172-176), or the entry returned (lines 182-189)
store_load(t) ==
    /\ store[t].pc = "load"
    /\ LET data == load_progress_data(progress_file)
       IN  store' = [store EXCEPT ![t] =
                       IF @.op = "get"
                       THEN [@ EXCEPT !.pc = "unlock",
                                      !.result = get_video_comment_progress(data, store[t].bvid)]
                       ELSE [@ EXCEPT !.pc = "open", !.data = Applied(store[t], data)]]
    /\ UNCHANGED <<progress_file, progress_lock, applied, crashes>>

\* _save_progress_data, line 155: open(filepath, "w") truncates the file
store_open(t) ==
    /\ store[t].pc = "open"
    /\ progress_file' = [valid |-> FALSE, data |-> NoData]
    /\ store' = [store EXCEPT ![t].pc = "dump"]
    /\ UNCHANGED <<progress_lock, applied, crashes>>

\* _save_progress_data, line 156 and the end of the with block: json.dump has
\* written the mapping and the file is closed
store_dump(t) ==
    /\ store[t].pc = "dump"
    /\ progress_file' = [valid |-> TRUE, data |-> store[t].data]
    /\ applied' = Applied(store[t], applied)
    /\ store' = [store EXCEPT ![t].pc = "unlock"]
    /\ UNCHANGED <<progress_lock, crashes>>

\* The with block of the call is left
store_unlock(t) ==
    /\ store[t].pc = "unlock"
    /\ progress_lock' = IF progress_lock = t THEN 0 ELSE progress_lock
    /\ store' = [store EXCEPT ![t].pc = "idle"]
    /\ UNCHANGED <<progress_file, applied, crashes>>

\* The process is killed and started again: the threads and the lock are
\* gone, the file is what it was.
store_crash ==
    /\ crashes < MaxCrashes
    /\ crashes' = crashes + 1
    /\ store' = [t \in StoreThreads |-> StoreIdleCall]
    /\ progress_lock' = 0
    /\ UNCHANGED <<progress_file, applied>>

\* No progress file yet, no call in progress
StoreInit ==
    /\ progress_file = [valid |-> TRUE, data |-> NoData]
    /\ progress_lock = 0
    /\ store = [t \in StoreThreads |-> StoreIdleCall]
    /\ applied = NoData
    /\ crashes = 0

(***************************************************************************)
(*                              Specifications                             *)
(***************************************************************************)

BucketNext ==
    \/ \E t \in Callers : acquire_enter(t) /\ UNCHANGED <<poolVars, pipeVars, unitVars>>
    \/ \E t \in Callers : acquire_wake(t) /\ UNCHANGED <<poolVars, pipeVars, unitVars>>
    \/ set_rate /\ UNCHANGED <<poolVars, pipeVars, unitVars>>
    \/ Tick /\ UNCHANGED <<poolVars, pipeVars, unitVars>>

InitBucket == PoolIdle /\ BucketInit /\ PipeIdle /\ ApiIdle /\ FanIdle /\ StoreInit

SpecBucket == InitBucket /\ [][BucketNext]_vars

\* The looping bucket of spider-py, its callers and set_rate over a bounded clock
LoopNext ==
    \/ \E t \in Callers : loop_acquire(t) /\ UNCHANGED <<poolVars, pipeVars, unitVars>>
    \/ \E t \in Callers : loop_retry(t) /\ UNCHANGED <<poolVars, pipeVars, unitVars>>
    \/ set_rate /\ UNCHANGED <<poolVars, pipeVars, unitVars>>
    \/ Tick /\ UNCHANGED <<poolVars, pipeVars, unitVars>>

InitLoop == PoolIdle /\ LoopBucketInit /\ PipeIdle /\ ApiIdle /\ FanIdle /\ StoreInit

SpecLoop == InitLoop /\ [][LoopNext]_vars

\* The looping bucket over a clock that never stops, its callers scheduled
\* fairly: time passes, and a caller whose sleep is over makes its next pass.
LoopLiveNext ==
    \/ \E t \in Callers : loop_acquire(t) /\ UNCHANGED <<poolVars, pipeVars, unitVars>>
    \/ \E t \in Callers : loop_retry(t) /\ UNCHANGED <<poolVars, pipeVars, unitVars>>
    \/ LiveTick /\ UNCHANGED <<poolVars, pipeVars, unitVars>>

LoopFairness ==
    /\ WF_vars(LiveTick /\ UNCHANGED <<poolVars, pipeVars, unitVars>>)
    /\ \A t \in Callers : WF_vars(loop_retry(t) /\ UNCHANGED <<poolVars, pipeVars, unitVars>>)

SpecLoopLive == InitLoop /\ [][LoopLiveNext]_vars /\ LoopFairness

PoolNext ==
    \/ get_cookie /\ UNCHANGED <<bucketVars, pipeVars, unitVars>>
    \/ get_cookie_item /\ UNCHANGED <<bucketVars, pipeVars, unitVars>>
    \/ mark_invalid /\ UNCHANGED <<bucketVars, pipeVars, unitVars>>
    \/ validate_all /\ UNCHANGED <<bucketVars, pipeVars, unitVars>>
    \/ reset_item /\ UNCHANGED <<bucketVars, pipeVars, unitVars>>

InitPool == PoolInit /\ BucketIdle /\ PipeIdle /\ ApiIdle /\ FanIdle /\ StoreInit

SpecPool == InitPool /\ [][PoolNext]_vars

\* The pool as the crawler drives it (api.py): sessions select credentials and
\* the retry layer marks failures; nothing probes or resets a credential.
RotationNext ==
    \/ get_cookie /\ UNCHANGED <<bucketVars, pipeVars, unitVars>>
    \/ get_cookie_item /\ UNCHANGED <<bucketVars, pipeVars, unitVars>>
    \/ mark_invalid /\ UNCHANGED <<bucketVars, pipeVars, unitVars>>

SpecRotation == InitPool /\ [][RotationNext]_vars

\* Threads calling the API functions through the retry wrapper, each with the
\* session it created, over the shared pool and limiter
ApiNext ==
    \/ \E t \in ApiThreads : create_session(t) /\ UNCHANGED <<bucketVars, pipeVars, fanVars, storeVars>>
    \/ \E t \in ApiThreads : api_call(t) /\ UNCHANGED <<poolVars, bucketVars, pipeVars, fanVars, storeVars>>
    \/ \E t \in ApiThreads : api_acquire(t) /\ UNCHANGED <<poolVars, pipeVars, fanVars, storeVars>>
    \/ \E t \in ApiThreads : api_wake(t) /\ UNCHANGED <<poolVars, pipeVars, fanVars, storeVars>>
    \/ \E t \in ApiThreads : api_invoke(t) /\ UNCHANGED <<poolVars, bucketVars, pipeVars, fanVars, storeVars>>
    \/ \E t \in ApiThreads : api_sign(t) /\ UNCHANGED <<poolVars, bucketVars, pipeVars, fanVars, storeVars>>
    \/ \E t \in ApiThreads : api_sign_expire(t) /\ UNCHANGED <<poolVars, bucketVars, pipeVars, fanVars, storeVars>>
    \/ \E t \in ApiThreads : api_sign_return(t) /\ UNCHANGED <<poolVars, bucketVars, pipeVars, fanVars, storeVars>>
    \/ \E t \in ApiThreads : api_nav(t) /\ UNCHANGED <<poolVars, bucketVars, pipeVars, fanVars, storeVars>>
    \/ \E t \in ApiThreads : api_nav_key(t) /\ UNCHANGED <<poolVars, bucketVars, pipeVars, fanVars, storeVars>>
    \/ \E t \in ApiThreads : api_nav_expire(t) /\ UNCHANGED <<poolVars, bucketVars, pipeVars, fanVars, storeVars>>
    \/ \E t \in ApiThreads : api_nav_return(t) /\ UNCHANGED <<poolVars, bucketVars, pipeVars, fanVars, storeVars>>
    \/ \E t \in ApiThreads : api_request(t) /\ UNCHANGED <<poolVars, bucketVars, pipeVars, fanVars, storeVars>>
    \/ \E t \in ApiThreads : api_handle(t) /\ UNCHANGED <<bucketVars, pipeVars, fanVars, storeVars>>
    \/ \E t \in ApiThreads : api_retry(t) /\ UNCHANGED <<poolVars, bucketVars, pipeVars, fanVars, storeVars>>
    \/ Tick /\ UNCHANGED <<poolVars, pipeVars, unitVars>>

InitApi == PoolInit /\ BucketStart(ApiThreads) /\ PipeIdle /\ ApiInit /\ FanIdle /\ StoreInit

SpecApi == InitApi /\ [][ApiNext]_vars

\* Threads calling get_wbi_mixin_key while the clock advances
SignerNext ==
    \/ \E t \in DOMAIN api : signer_call(t) /\ UNCHANGED <<poolVars, bucketVars, pipeVars, fanVars, storeVars>>
    \/ \E t \in DOMAIN api : api_sign(t) /\ UNCHANGED <<poolVars, bucketVars, pipeVars, fanVars, storeVars>>
    \/ \E t \in DOMAIN api : api_sign_expire(t) /\ UNCHANGED <<poolVars, bucketVars, pipeVars, fanVars, storeVars>>
    \/ \E t \in DOMAIN api : api_sign_return(t) /\ UNCHANGED <<poolVars, bucketVars, pipeVars, fanVars, storeVars>>
    \/ \E t \in DOMAIN api : api_nav(t) /\ UNCHANGED <<poolVars, bucketVars, pipeVars, fanVars, storeVars>>
    \/ \E t \in DOMAIN api : api_nav_key(t) /\ UNCHANGED <<poolVars, bucketVars, pipeVars, fanVars, storeVars>>
    \/ \E t \in DOMAIN api : api_nav_expire(t) /\ UNCHANGED <<poolVars, bucketVars, pipeVars, fanVars, storeVars>>
    \/ \E t \in DOMAIN api : api_nav_return(t) /\ UNCHANGED <<poolVars, bucketVars, pipeVars, fanVars, storeVars>>
    \/ Tick /\ UNCHANGED <<poolVars, pipeVars, unitVars>>

InitSigner == PoolIdle /\ BucketIdle /\ PipeIdle /\ SignerInit /\ FanIdle /\ StoreInit

SpecSigner == InitSigner /\ [][SignerNext]_vars

\* get_main_comments building its requests
RequestNext ==
    \/ build_sign_str /\ UNCHANGED <<poolVars, bucketVars, pipeVars, fanVars, storeVars>>
    \/ build_url /\ UNCHANGED <<poolVars, bucketVars, pipeVars, fanVars, storeVars>>
    \/ next_request /\ UNCHANGED <<poolVars, bucketVars, pipeVars, fanVars, storeVars>>

InitRequest ==
    /\ PoolIdle /\ BucketIdle /\ PipeIdle
    /\ api = << >> /\ wbi_mixin_key = 0 /\ wbi_key_expire_time = 0 /\ requests = 0
    /\ RequestInit
    /\ FanIdle /\ StoreInit

SpecRequest == InitRequest /\ [][RequestNext]_vars

\* search_videos_parallel searching and cutting the new videos into chunks
SearchNext ==
    \/ \E i \in DOMAIN sw : search_request(i) /\ UNCHANGED <<poolVars, bucketVars, pipeVars, apiVars, storeVars>>
    \/ \E i \in DOMAIN sw : search_extend(i) /\ UNCHANGED <<poolVars, bucketVars, pipeVars, apiVars, storeVars>>
    \/ search_join /\ UNCHANGED <<poolVars, bucketVars, pipeVars, apiVars, storeVars>>

InitSearch == PoolIdle /\ BucketIdle /\ PipeIdle /\ ApiIdle /\ FanInit /\ StoreInit

SpecSearch == InitSearch /\ [][SearchNext]_vars

\* Comment workers calling the progress store
StoreNext ==
    \/ \E t \in StoreThreads : store_call(t) /\ UNCHANGED <<poolVars, bucketVars, pipeVars, apiVars, fanVars>>
    \/ \E t \in StoreThreads : store_lock(t) /\ UNCHANGED <<poolVars, bucketVars, pipeVars, apiVars, fanVars>>
    \/ \E t \in StoreThreads : store_load(t) /\ UNCHANGED <<poolVars, bucketVars, pipeVars, apiVars, fanVars>>
    \/ \E t \in StoreThreads : store_open(t) /\ UNCHANGED <<poolVars, bucketVars, pipeVars, apiVars, fanVars>>
    \/ \E t \in StoreThreads : store_dump(t) /\ UNCHANGED <<poolVars, bucketVars, pipeVars, apiVars, fanVars>>
    \/ \E t \in StoreThreads : store_unlock(t) /\ UNCHANGED <<poolVars, bucketVars, pipeVars, apiVars, fanVars>>

InitStore == PoolIdle /\ BucketIdle /\ PipeIdle /\ ApiIdle /\ FanIdle /\ StoreInit

SpecStore == InitStore /\ [][StoreNext]_vars

\* The same, with the process killed at any point and started again
StoreCrashNext ==
    \/ \E t \in StoreThreads : store_call(t) /\ UNCHANGED <<poolVars, bucketVars, pipeVars, apiVars, fanVars>>
    \/ \E t \in StoreThreads : store_lock(t) /\ UNCHANGED <<poolVars, bucketVars, pipeVars, apiVars, fanVars>>
    \/ \E t \in StoreThreads : store_load(t) /\ UNCHANGED <<poolVars, bucketVars, pipeVars, apiVars, fanVars>>
    \/ \E t \in StoreThreads : store_open(t) /\ UNCHANGED <<poolVars, bucketVars, pipeVars, apiVars, fanVars>>
    \/ \E t \in StoreThreads : store_dump(t) /\ UNCHANGED <<poolVars, bucketVars, pipeVars, apiVars, fanVars>>
    \/ \E t \in StoreThreads : store_unlock(t) /\ UNCHANGED <<poolVars, bucketVars, pipeVars, apiVars, fanVars>>
    \/ store_crash /\ UNCHANGED <<poolVars, bucketVars, pipeVars, apiVars, fanVars>>

SpecStoreCrash == InitStore /\ [][StoreCrashNext]_vars

\* One run of the crawler: the main thread and the workers of every stage
RunNext ==
    \/ main_search /\ UNCHANGED <<poolVars, bucketVars, unitVars>>
    \/ main_split /\ UNCHANGED <<poolVars, bucketVars, unitVars>>
    \/ main_detail_join /\ UNCHANGED <<poolVars, bucketVars, unitVars>>
    \/ main_finish /\ UNCHANGED <<poolVars, bucketVars, unitVars>>
    \/ main_rewrite /\ UNCHANGED <<poolVars, bucketVars, unitVars>>
    \/ \E i \in Workers : detail_fetch(i) /\ UNCHANGED <<poolVars, bucketVars, unitVars>>
    \/ \E i \in Workers : detail_record(i) /\ UNCHANGED <<poolVars, bucketVars, unitVars>>
    \/ \E i \in Workers : detail_enqueue(i) /\ UNCHANGED <<poolVars, bucketVars, unitVars>>
    \/ \E w \in BagToSet(cw) : comment_start(w) /\ UNCHANGED <<poolVars, bucketVars, unitVars>>
    \/ \E w \in BagToSet(cw) : comment_get(w) /\ UNCHANGED <<poolVars, bucketVars, unitVars>>
    \/ \E w \in BagToSet(cw) : comment_empty(w) /\ UNCHANGED <<poolVars, bucketVars, unitVars>>
    \/ \E w \in BagToSet(cw) : comment_begin(w) /\ UNCHANGED <<poolVars, bucketVars, unitVars>>
    \/ \E w \in BagToSet(cw) : comment_fetch(w) /\ UNCHANGED <<poolVars, bucketVars, unitVars>>
    \/ \E w \in BagToSet(cw) : comment_mid(w) /\ UNCHANGED <<poolVars, bucketVars, unitVars>>
    \/ \E w \in BagToSet(cw) : comment_emit(w) /\ UNCHANGED <<poolVars, bucketVars, unitVars>>
    \/ \E w \in BagToSet(cw) : comment_record(w) /\ UNCHANGED <<poolVars, bucketVars, unitVars>>
    \/ \E w \in BagToSet(cw) : comment_page_end(w) /\ UNCHANGED <<poolVars, bucketVars, unitVars>>
    \/ \E w \in BagToSet(cw) : comment_leave(w) /\ UNCHANGED <<poolVars, bucketVars, unitVars>>
    \/ \E w \in BagToSet(rw) : reply_start(w) /\ UNCHANGED <<poolVars, bucketVars, unitVars>>
    \/ \E w \in BagToSet(rw) : reply_get(w) /\ UNCHANGED <<poolVars, bucketVars, unitVars>>
    \/ \E w \in BagToSet(rw) : reply_empty(w) /\ UNCHANGED <<poolVars, bucketVars, unitVars>>
    \/ \E w \in BagToSet(rw) : reply_fetch(w) /\ UNCHANGED <<poolVars, bucketVars, unitVars>>
    \/ \E w \in BagToSet(rw) : reply_mid(w) /\ UNCHANGED <<poolVars, bucketVars, unitVars>>
    \/ \E w \in BagToSet(rw) : reply_emit(w) /\ UNCHANGED <<poolVars, bucketVars, unitVars>>
    \/ \E w \in BagToSet(rw) : reply_record(w) /\ UNCHANGED <<poolVars, bucketVars, unitVars>>
    \/ \E w \in BagToSet(rw) : reply_leave(w) /\ UNCHANGED <<poolVars, bucketVars, unitVars>>
    \/ \E w \in BagToSet(aw) : account_get(w) /\ UNCHANGED <<poolVars, bucketVars, unitVars>>
    \/ \E w \in BagToSet(aw) : account_empty(w) /\ UNCHANGED <<poolVars, bucketVars, unitVars>>
    \/ \E w \in BagToSet(aw) : account_card(w) /\ UNCHANGED <<poolVars, bucketVars, unitVars>>
    \/ \E w \in BagToSet(aw) : account_record(w) /\ UNCHANGED <<poolVars, bucketVars, unitVars>>

InitRun == PoolIdle /\ BucketIdle /\ PipeInit(MaxThreads, MaxPages) /\ ApiIdle /\ FanIdle /\ StoreInit

Spec == InitRun /\ [][RunNext]_vars

\* Runs of the crawler with one thread per stage, killed and started again
ResumeNext ==
    \/ RunNext
    \/ Restart /\ UNCHANGED <<poolVars, bucketVars, unitVars>>

InitResume == PoolIdle /\ BucketIdle /\ PipeInit(ResumeThreads, ResumePages) /\ ApiIdle /\ FanIdle /\ StoreInit

SpecResume == InitResume /\ [][ResumeNext]_vars

\* One resumed run of the crawler over the ledger of videos of earlier runs
InitRerun == PoolIdle /\ BucketIdle /\ RerunInit /\ ApiIdle /\ FanIdle /\ StoreInit

SpecRerun == InitRerun /\ [][RunNext]_vars

\* One run of the crawler against a service that may return records without
\* their key
InitKeyless == PoolIdle /\ BucketIdle /\ KeylessInit /\ ApiIdle /\ FanIdle /\ StoreInit

SpecKeyless == InitKeyless /\ [][RunNext]_vars

\* One run under fair scheduling: no thread that can take a step waits forever
\* (the main thread, each detail worker, and the worker of each consuming stage).
MainStep ==
    /\ main_search \/ main_split \/ main_detail_join \/ main_finish \/ main_rewrite
    /\ UNCHANGED <<poolVars, bucketVars, unitVars>>

DetailStep(i) ==
    /\ detail_fetch(i) \/ detail_record(i) \/ detail_enqueue(i)
    /\ UNCHANGED <<poolVars, bucketVars, unitVars>>

CommentStep ==
    /\ \E w \in BagToSet(cw) :
        \/ comment_start(w) \/ comment_get(w) \/ comment_empty(w) \/ comment_begin(w)
        \/ comment_fetch(w) \/ comment_mid(w) \/ comment_emit(w) \/ comment_record(w)
        \/ comment_page_end(w) \/ comment_leave(w)
    /\ UNCHANGED <<poolVars, bucketVars, unitVars>>

ReplyStep ==
    /\ \E w \in BagToSet(rw) :
        \/ reply_start(w) \/ reply_get(w) \/ reply_empty(w) \/ reply_fetch(w)
        \/ reply_mid(w) \/ reply_emit(w) \/ reply_record(w) \/ reply_leave(w)
    /\ UNCHANGED <<poolVars, bucketVars, unitVars>>

AccountStep ==
    /\ \E w \in BagToSet(aw) :
        account_get(w) \/ account_empty(w) \/ account_card(w) \/ account_record(w)
    /\ UNCHANGED <<poolVars, bucketVars, unitVars>>

Fairness ==
    /\ WF_vars(MainStep)
    /\ \A i \in Workers : WF_vars(DetailStep(i))
    /\ WF_vars(CommentStep)
    /\ WF_vars(ReplyStep)
    /\ WF_vars(AccountStep)

\* The reply workers alone, scheduled fairly, over the comments handed to them
RepliesNext ==
    \/ \E w \in BagToSet(rw) : reply_start(w) /\ UNCHANGED <<poolVars, bucketVars, unitVars>>
    \/ \E w \in BagToSet(rw) : reply_get(w) /\ UNCHANGED <<poolVars, bucketVars, unitVars>>
    \/ \E w \in BagToSet(rw) : reply_empty(w) /\ UNCHANGED <<poolVars, bucketVars, unitVars>>
    \/ \E w \in BagToSet(rw) : reply_fetch(w) /\ UNCHANGED <<poolVars, bucketVars, unitVars>>
    \/ \E w \in BagToSet(rw) : reply_mid(w) /\ UNCHANGED <<poolVars, bucketVars, unitVars>>
    \/ \E w \in BagToSet(rw) : reply_emit(w) /\ UNCHANGED <<poolVars, bucketVars, unitVars>>
    \/ \E w \in BagToSet(rw) : reply_record(w) /\ UNCHANGED <<poolVars, bucketVars, unitVars>>
    \/ \E w \in BagToSet(rw) : reply_leave(w) /\ UNCHANGED <<poolVars, bucketVars, unitVars>>

InitReplies == PoolIdle /\ BucketIdle /\ ReplyWalkInit /\ ApiIdle /\ FanIdle /\ StoreInit

SpecReplies == InitReplies /\ [][RepliesNext]_vars /\ WF_vars(ReplyStep)

InitLive == PoolIdle /\ BucketIdle /\ PipeInit(LiveThreads, MaxPages) /\ ApiIdle /\ FanIdle /\ StoreInit

SpecLive == InitLive /\ [][RunNext]_vars /\ Fairness

(***************************************************************************)
(*                          Claims: the pipeline                           *)
(***************************************************************************)

\* The keys the sink has been sent under a topic
SentKeys(topic) == {m[2] : m \in {x \in sink : x[1] = topic}}

\* C1: an id enters an emitted ledger only after the sink send for it: in every
\* reachable state, also after the process was killed between any two steps and
\* started again, every id in sent_videos.txt / sent_comments.txt /
\* sent_accounts.txt and in saved_bvids / saved_rpids / saved_mids has been sent
\* to the sink as a key of its topic.
C1_LedgerAfterSend ==
    /\ sent_videos \cup saved_bvids \subseteq SentKeys("claw_video")
    /\ sent_comments \cup saved_rpids \subseteq SentKeys("claw_comment")
    /\ sent_accounts \cup saved_mids \subseteq SentKeys("claw_account")

\* A second run that resumed the ledgers of a first run killed between a send
\* and its ledger append, and has itself recorded a new id.
C1_Witness ==
    /\ runs = 2 /\ resume
    /\ SentKeys("claw_comment") \ sent_comments # {}
    /\ saved_rpids # {} /\ saved_mids # {} /\ saved_bvids # {}
    /\ \E w \in BagToSet(aw) : w.pc = "record"

\* Every worker of a stage has left its loop
Exited(workers) == \A w \in BagToSet(workers) : w.pc \in {"leave", "done"}

\* C2: a consuming worker exits only when its input queue is empty and its
\* upstream producers-done event is set: once all workers of a stage have
\* exited, the stage's input queue is empty.
C2_ExitLeavesQueueEmpty ==
    /\ Exited(cw) => video_queue = << >>
    /\ Exited(rw) => comment_queue = << >>
    /\ Exited(aw) => user_mid_queue = << >>

\* C3: a stage's producers-done event is set only when every worker of that
\* stage has left its loop, including a worker that had not yet incremented the
\* active-worker counter when another worker decremented it to zero.
C3_DoneOnlyWhenAllExited ==
    /\ comment_producers_done => Exited(cw)
    /\ reply_producers_done => Exited(rw)

\* The run has returned
Returned ==
    /\ main.pc = "done"
    /\ video_producers_done /\ comment_producers_done /\ reply_producers_done
    /\ \A w \in BagToSet(cw) \cup BagToSet(rw) \cup BagToSet(aw) : w.pc = "done"

C10_DoneIsFinal ==
    \A b \in Bvids : progress[b].done => progress[b].cursor = ""

\* C11: progress monotonicity: for every bvid, each change of the stored cursor
\* sets it to a value the server returned as next_offset for that video's
\* comment endpoint.
C11_CursorFromServer ==
    [][\A b \in Bvids :
          progress'[b].cursor # progress[b].cursor => progress'[b].cursor \in served'[b]]_vars

\* The aid the upstream service knows a video by
AidOf(b) == ViewData(b).aid

\* The rpids on the comment pages of aid that precede the page at `cursor`,
\* walking from the first page (`at`) for at most `n` pages
RECURSIVE Preceding(_, _, _, _)
Preceding(aid, at, cursor, n) ==
    IF at = cursor \/ n = 0 THEN {}
    ELSE LET page == MainComments(aid, at)
         IN  {page.replies[k].rpid : k \in 1..Len(page.replies)}
                 \cup (IF page.next_offset = "" THEN {}
                       ELSE Preceding(aid, page.next_offset, cursor, n - 1))

\* C12: the cursor for the next page is persisted only after every reply of
\* the current page has been submitted to the sink or skipped as already
\* emitted: in every reachable state, also after the process was killed at any
\* point, every comment on a page that precedes the persisted cursor of a video
\* has been sent to the sink.
C12_PersistedPagesSent ==
    \A b \in Bvids :
        progress[b].cursor # "" =>
            \A r \in Preceding(AidOf(b), "", progress[b].cursor, MaxCommentPages) :
                Str(r) \in SentKeys("claw_comment")

\* The process was killed after the cursor of the second page was persisted
\* and before that page was walked; the next run has started.
C12_Witness ==
    /\ runs = 2
    /\ progress["b1"].cursor = "A" /\ ~progress["b1"].done
    /\ Preceding(AidOf("b1"), "", "A", MaxCommentPages) = {1, 4}
    /\ "2" \notin SentKeys("claw_comment")

\* The producer.send calls of the current run with this topic and key
SendsOf(topic, key) == CopiesIn(<<topic, key>>, sends)

\* The first comment call of the run for b used the cursor and the aid stored
\* when the run started
ResumedAtStored(b) ==
    /\ first_call[b].cursor = start_progress[b].cursor
    /\ start_progress[b].aid # 0 => first_call[b].aid = start_progress[b].aid

\* C13: resume after a mid-video crash: when a run with resume enabled starts
\* and the progress store holds a non-done entry with cursor c for a video, the
\* first comment-endpoint call for that video uses exactly c (and the stored
\* aid), and no comment whose rpid is already in saved_rpids is sent to the sink
\* again.
C13_ResumeAtCursor ==
    /\ [](resume =>
            \A b \in Bvids :
                /\ start_progress[b].present /\ ~start_progress[b].done
                /\ first_call[b].called
                => ResumedAtStored(b))
    /\ [][resume =>
            \A r \in saved_rpids :
                CopiesIn(<<"claw_comment", r>>, sends')
                    <= CopiesIn(<<"claw_comment", r>>, sends)]_vars

\* A resumed run found b1 stored with cursor "A", called the comment endpoint
\* with it, skipped no page and sent only what the ledger did not hold.
C13_Witness ==
    /\ runs = 2 /\ resume
    /\ start_progress["b1"].cursor = "A" /\ ~start_progress["b1"].done
    /\ first_call["b1"] = [called |-> TRUE, cursor |-> "A", aid |-> 1]
    /\ {"1", "4"} \subseteq saved_rpids
    /\ SendsOf("claw_comment", "1") = 0 /\ SendsOf("claw_comment", "2") = 1

\* The records the upstream service holds for the pages a run searches: the
\* videos found, their comments (every page), the replies to those comments
\* and the users seen on any of them
FoundBvids ==
    UNION {{SearchPage(p)[k].bvid : k \in 1..Len(SearchPage(p))} :
              p \in 1..(n_threads * pages_per_thread)}

RECURSIVE CommentsFrom(_, _, _)
CommentsFrom(aid, at, n) ==
    IF n = 0 THEN {}
    ELSE LET page == MainComments(aid, at)
         IN  {page.replies[k] : k \in 1..Len(page.replies)}
                 \cup (IF page.next_offset = "" \/ page.is_end THEN {}
                       ELSE CommentsFrom(aid, page.next_offset, n - 1))

CommentsOf(b) == CommentsFrom(AidOf(b), "", MaxCommentPages)

RepliesOf(b) ==
    UNION {LET r == ReplyComments(AidOf(b), c.rpid, 1).replies
           IN  {r[k] : k \in 1..Len(r)} : c \in {x \in CommentsOf(b) : x.rcount > 0}}

ExpectedSends ==
    LET comments == UNION {CommentsOf(b) \cup RepliesOf(b) : b \in FoundBvids}
        mids == {ViewData(b).owner : b \in FoundBvids} \cup {c.mid : c \in comments}
    IN  {<<"claw_video", b>> : b \in FoundBvids}
            \cup {<<"claw_comment", Str(c.rpid)>> : c \in comments}
            \cup {<<"claw_account", Str(m)>> : m \in mids \ {0}}

\* C14: resume idempotence: running the pipeline twice back to back against
\* the same upstream data, with no kill and no upstream error, sends each new
\* video, comment, reply and user record exactly once in the first run and
\* nothing in the second run.
C14_ResumeIdempotent ==
    /\ runs = 1 /\ resume /\ faults = 0 =>
          /\ \A e \in BagToSet(sends) : CopiesIn(e, sends) = 1
          /\ main.pc = "done" => BagToSet(sends) = ExpectedSends
    /\ runs = 2 /\ clean /\ resume /\ faults = 0 => sends = EmptyBag

\* C15: pending-users compaction: when run() has finished, pending_mids.txt
\* holds exactly the user ids observed or restored in the run (user_mids) that
\* are not in the emitted-id ledger sent_accounts.txt; no line when that set
\* is empty.
C15_PendingCompacted ==
    main.pc = "done" => pending_mids = user_mids \ sent_accounts

\* C16: no double enqueue of user ids: within one run each user id is put on
\* the user-id queue at most once, the ids restored from the pending file at
\* startup included.
C16_NoDoubleEnqueue ==
    \A mid \in BagToSet(puts) : CopiesIn(mid, puts) = 1

\* The previous run sent comment 1 (author mid 2, so 2 went to the pending
\* file) but not the account of mid 2; this run restored mid 2 from the file
\* and has walked the first comment page of b1 again, up to comment 4, which
\* observed mid 2 a second time.
C16_Witness ==
    /\ runs = 2 /\ resume
    /\ "1" \in saved_rpids /\ SendsOf("claw_comment", "1") = 0
    /\ SendsOf("claw_comment", "4") = 1
    /\ "2" \notin sent_accounts
    /\ CopiesIn("2", puts) = 1

(***************************************************************************)
(*                        Claims: the rate limiter                         *)
(***************************************************************************)

\* C5: the token bucket never under-deducts: in every state reached by
\* concurrent blocking and non-blocking acquire(n) (n <= capacity) and set_rate
\* calls, 0 <= tokens <= capacity.
C5_TokensInRange == 0 <= tokens /\ tokens <= capacity

\* C6: rate-limit bound of the global limiter: for a bucket that starts full
\* and whose rate is not changed, the acquire(1) calls that returned success
\* by time T number at most C + T * r.
C6_RateLimitBound == (~rateSet) => granted <= capacity + now * rate

(***************************************************************************)
(*                       Claims: the credential pool                       *)
(***************************************************************************)

\* C7: in every reachable state of the pool, after any sequence of get_cookie,
\* get_cookie_item, mark_invalid, validate_all and reset, every credential with
\* fail_count >= max_fails has is_valid = false and is not in the available set.
C7_FailedExcluded ==
    \A i \in 1..Len(cookies) :
        cookies[i].fail_count >= max_fails =>
            /\ ~cookies[i].is_valid
            /\ i \notin SeqRange(Available(cookies))

\* C8: credential exclusion: once a credential has taken max_fails
\* mark_invalid(value, permanent=False) calls with no reset, no get_cookie or
\* get_cookie_item call returns it, whatever mark_invalid calls interleave.
C8_ExcludedNeverReturned ==
    ret # NoSelection => cookies[ret.item].fail_count < max_fails

\* A selection made after some credential reached max_fails returned another one.
C8_Witness ==
    /\ ret # NoSelection
    /\ \E i \in 1..Len(cookies) :
          /\ cookies[i].fail_count >= max_fails
          /\ cookies[i].enabled
          /\ ret.item # i

\* C9: round-robin fairness: with strategy round_robin, after m selections from
\* an unchanged set of k available credentials (through get_cookie and
\* get_cookie_item alike), each has been returned floor(m/k) or ceil(m/k) times,
\* and the cursor stays within the available count.
C9_RoundRobinFair ==
    strategy = "round_robin" =>
        LET available == Available(cookies)
            k == Len(available)
            m == SumTo(selCount, Len(cookies))
        IN  /\ index \in 0..Len(cookies)
            /\ \A j \in 1..k :
                  selCount[available[j]] \in {m \div k, (m + k - 1) \div k}
            /\ \A i \in 1..Len(cookies) :
                  i \notin SeqRange(available) => selCount[i] = 0

\* More selections than credentials were made from two or more credentials,
\* the last of them through get_cookie_item.
C9_Witness ==
    /\ strategy = "round_robin"
    /\ Len(Available(cookies)) >= 2
    /\ SumTo(selCount, Len(cookies)) > Len(Available(cookies))
    /\ ret # NoSelection
    /\ ret.op = "get_cookie_item"

(***************************************************************************)
(*                          Claims: the API layer                          *)
(***************************************************************************)

\* The pcs of a thread that is inside the wrapped function
InFunction == {"sign", "sign_expire", "sign_return", "nav", "nav_key", "nav_expire",
               "nav_return", "request", "handle"}

\* C17: the retry wrapper acquires one token before every attempt of the
\* wrapped function, retries included: an invocation never runs ahead of the
\* acquisitions, the k-th attempt is inside the function with k tokens acquired
\* and k invocations made, and between attempts and at the return the two
\* counts are equal.
C17_TokenPerAttempt ==
    \A t \in DOMAIN api :
        LET a == api[t]
        IN  /\ a.invoked <= a.acquired
            /\ a.pc \in InFunction =>
                  a.acquired = a.attempt + 1 /\ a.invoked = a.attempt + 1
            /\ a.pc \in {"backoff", "returned"} =>
                  a.acquired = a.invoked /\ a.invoked = a.attempt + 1

\* A call that failed three times and succeeded at its last attempt
C17_Witness ==
    \E t \in DOMAIN api :
        /\ api[t].pc = "returned" /\ api[t].result = "ok"
        /\ api[t].attempt = max_retries
        /\ api[t].acquired = max_retries + 1 /\ api[t].invoked = max_retries + 1

\* C18: no upstream request is issued without a token: at every moment the
\* HTTP requests sent to the API (the signer's nav request included) number
\* at most the tokens acquired.
C18_RequestsWithinTokens == requests <= granted

\* The codes the claims name as credential-related
CredentialCodes == {-101, -352, -412}

\* The pool entry a session's credential value names
Bound(t) == FirstWith(cookies, api[t].session, 1)

\* C19: when an attempt on a session bound to a credential returns code -101,
\* -352 or -412, mark_invalid is called on that credential before the backoff
\* sleep and before the next attempt, and raises its fail_count by exactly one
\* per such response.
C19_MarkedBeforeBackoff ==
    /\ [](\A t \in DOMAIN api :
            api[t].session # 0 /\ api[t].pc # "handle" => api[t].marked = api[t].errors)
    /\ [][\A t \in DOMAIN api :
            /\ api[t].pc = "handle" /\ api'[t].pc # "handle"
            /\ api[t].session # 0
            /\ api[t].outcome.kind = "code" /\ api[t].outcome.code \in CredentialCodes
            => /\ Bound(t) # 0
               /\ cookies'[Bound(t)].fail_count = cookies[Bound(t)].fail_count + 1
               /\ \A j \in 1..Len(cookies) : j # Bound(t) => cookies'[j] = cookies[j]
               /\ api[t].attempt < max_retries => api'[t].pc = "backoff"]_vars

\* One credential-coded response on a session bound to a credential, then a
\* success: the call returned after one retry and the credential's
\* fail_count is 1.
C19_Witness ==
    \E t \in DOMAIN api :
        /\ api[t].pc = "returned" /\ api[t].result = "ok"
        /\ api[t].attempt = 1 /\ api[t].errors = 1
        /\ api[t].session # 0
        /\ cookies[Bound(t)].fail_count = 1

\* C20: only credential-related codes penalise a credential: an attempt that
\* fails with a transport error or with a non-zero code outside
\* {-101, -352, -412}, and any failed attempt on a session with no bound
\* credential, leaves every credential as it was, and the call is retried
\* with backoff while attempts remain.
C20_OnlyCredentialCodesPenalise ==
    [][\A t \in DOMAIN api :
          /\ api[t].pc = "handle" /\ api'[t].pc # "handle"
          /\ \/ api[t].outcome.kind = "exception"
             \/ api[t].outcome.kind = "code" /\ api[t].outcome.code # 0
                  /\ (api[t].outcome.code \notin CredentialCodes \/ api[t].session = 0)
          => /\ cookies' = cookies
             /\ api[t].attempt < max_retries => api'[t].pc = "backoff"]_vars

\* A first attempt on a session bound to a credential failed with no
\* credential-coded response and the thread is in its backoff sleep.
C20_Witness ==
    \E t \in DOMAIN api :
        /\ api[t].pc = "backoff" /\ api[t].attempt = 0
        /\ api[t].session # 0 /\ api[t].errors = 0
        /\ cookies[Bound(t)].fail_count = 0

\* The pool holds an available credential other than v
OtherAvailable(v) ==
    \E i \in SeqRange(Available(cookies)) : cookies[i].value # v

\* C21: after an attempt failed with a credential-related code, the next
\* attempt of the call is not sent with the credential that was just marked
\* failed whenever the pool holds another available credential.
C21_RetryRebinds ==
    \A t \in DOMAIN api :
        /\ api[t].pc = "handle" /\ api[t].attempt > 0
        /\ api[t].last_marked # 0
        /\ OtherAvailable(api[t].last_marked)
        => api[t].session # api[t].last_marked

\* C22: the signer never returns a stale cached key: a get_wbi_mixin_key call
\* made at time current_time returns the cached key only if current_time is
\* before the expiry of that key (the time of its fetch plus the cache period).
C22_NoStaleKey ==
    \A t \in DOMAIN api :
        api[t].pc = "request" /\ api[t].cached => api[t].current_time < api[t].key

\* The parameters of a query string and the value of one of them
ParamNames(q) == {q[k][1] : k \in 1..Len(q)}

\* C23: for the first-level comment request the signed string and the query
\* string sent agree: the same parameters (the signature w_rid aside) with
\* character-for-character identical encoded values, and seek_rpid= in both
\* exactly when the cursor is empty.
C23_SignedEqualsWire ==
    req.pc = "built" =>
        LET signed == req.sign_str
            wire == req.url
        IN  /\ ParamNames(wire) \ {"w_rid"} = ParamNames(signed)
            /\ \A k \in 1..Len(signed) :
                  \E j \in 1..Len(wire) :
                      wire[j][1] = signed[k][1] /\ wire[j][2] = signed[k][2]
            /\ ("seek_rpid" \in ParamNames(signed)) <=> (req.cursor = << >>)
            /\ ("seek_rpid" \in ParamNames(wire)) <=> (req.cursor = << >>)

(***************************************************************************)
(*                 Claims: the search fan-out and the split                *)
(***************************************************************************)

\* The pages search worker i has asked for so far, in the order it asked
Requested(i) == sw[i].requested

\* C24: search worker i of N, each with M pages, asks for exactly the pages
\* i*M+1 .. i*M+M, in increasing order, whether or not a page fails; once the
\* workers have finished, every page of 1..N*M was asked for by exactly one
\* worker, once, and no other page was asked for.
C24_SearchPartition ==
    LET N == fan.n_threads
        M == fan.pages_per_thread
    IN  /\ \A i \in DOMAIN sw :
              /\ Len(Requested(i)) <= M
              /\ \A k \in 1..Len(Requested(i)) : Requested(i)[k] = i * M + k
              /\ sw[i].pc # "page" => Len(Requested(i)) = M
        /\ (\A i \in DOMAIN sw : sw[i].pc # "page") =>
              /\ \A p \in 1..(N * M) :
                    Cardinality({ik \in (DOMAIN sw) \X (1..M) :
                                   Requested(ik[1])[ik[2]] = p}) = 1
              /\ \A i \in DOMAIN sw : SeqRange(Requested(i)) \subseteq 1..(N * M)

\* Two workers of two pages each have searched; one of the four pages failed.
C24_Witness ==
    /\ fan.pc = "chunked" /\ fan.n_threads = 2 /\ fan.pages_per_thread = 2
    /\ Requested(0) = <<1, 2>> /\ Requested(1) = <<3, 4>>
    /\ Len(fan.results) = 9

\* Size of the j-th chunk handed to the detail stage (0 for a chunk that was
\* not made)
ChunkSize(j) == IF j <= Len(fan.video_chunks) THEN Len(fan.video_chunks[j]) ELSE 0

\* The places <<j, k>> of the chunks at which video v stands
PlacesOf(v) ==
    {jk \in (1..Len(fan.video_chunks)) \X (1..Len(fan.unique_videos)) :
        /\ jk[2] <= Len(fan.video_chunks[jk[1]])
        /\ fan.video_chunks[jk[1]][jk[2]] = v}

\* C25: when there are new videos, they are cut into n_threads chunks whose
\* sizes differ by at most one, and every new video stands in exactly one
\* chunk, once.
C25_EvenChunks ==
    (fan.pc = "chunked" /\ fan.unique_videos # << >>) =>
        /\ Len(fan.video_chunks) <= fan.n_threads
        /\ \A j, k \in 1..fan.n_threads : ChunkSize(j) - ChunkSize(k) <= 1
        /\ \A x \in 1..Len(fan.unique_videos) :
              Cardinality(PlacesOf(fan.unique_videos[x])) = 1

(***************************************************************************)
(*                 Claims: a resumed run and the videos found              *)
(***************************************************************************)

\* The videos the search of this run found that the ledger of videos held
\* when the run started, and the others it found
FoundEmitted == video_log.found \cap video_log.emitted
FoundNew == video_log.found \ video_log.emitted

\* C26: in a run with resume, a found video that the ledger already held is
\* put on the video queue by the main thread at most once, and exactly once
\* by the time video_producers_done is set, and it is never asked of
\* get_video_detail nor sent to the sink; every other found video is never
\* put on the queue by the main thread and is asked of get_video_detail at
\* most once, and exactly once by the time video_producers_done is set.
C26_EmittedForwarded ==
    resume =>
        /\ \A b \in FoundEmitted :
              /\ CopiesIn(b, video_log.views) = 0
              /\ CopiesIn(<<"claw_video", b>>, sends) = 0
              /\ CopiesIn(b, video_log.forwarded) <= 1
              /\ video_producers_done => CopiesIn(b, video_log.forwarded) = 1
        /\ \A b \in FoundNew :
              /\ CopiesIn(b, video_log.forwarded) = 0
              /\ CopiesIn(b, video_log.views) <= 1
              /\ video_producers_done => CopiesIn(b, video_log.views) = 1

\* A resumed run over the ledger {b1} found b1 and b2: b1 went to the video
\* queue, b2 to get_video_detail, and video_producers_done is set.
C26_Witness ==
    /\ resume /\ video_producers_done
    /\ FoundEmitted = {"b1"} /\ FoundNew = {"b2"}
    /\ CopiesIn("b1", video_log.forwarded) = 1
    /\ CopiesIn("b2", video_log.views) = 1

(***************************************************************************)
(*                 Claims: failures of the upstream service                *)
(***************************************************************************)

\* Comment worker w asks for a page of its video and get_main_comments
\* returns an error
FailedFetch(w) ==
    /\ w \in BagToSet(cw) /\ w.pc = "fetch"
    /\ faults' = faults + 1
    /\ cw' = Put(cw, w, CommentIdle)

\* C27: when get_main_comments returns an error for a video, the stored
\* progress of that video is not done and holds the cursor of the failed
\* request, the progress entries of all other videos are unchanged, and the
\* worker is back at the video queue for the next video.
C27_FailedPageAbortsOneWalk ==
    [][\A w \in BagToSet(cw) :
          FailedFetch(w) =>
              /\ get_video_comment_progress(progress', w.video.bvid).done = FALSE
              /\ get_video_comment_progress(progress', w.video.bvid).cursor = w.cursor
              /\ \A b \in Bvids \ {w.video.bvid} : progress'[b] = progress[b]
              /\ \E w2 \in BagToSet(cw') : w2.pc = "get"]_vars

\* The key a record without key would be sent and recorded under
NoKey == ""

\* Worker w of the bag `workers` takes a step
Steps(workers, w) == CopiesIn(w, workers') < CopiesIn(w, workers)

\* C28: a record without its key (a video without bvid, a comment or reply
\* without rpid, a card without mid) is never sent to the sink, never written
\* to a ledger nor added to a set of saved ids, and a comment without rpid is
\* never put on the comment queue; the worker that meets such a comment or
\* reply passes to the next one of the page.
C28_KeylessDropped ==
    /\ [](/\ \A topic \in {"claw_video", "claw_comment", "claw_account"} :
               <<topic, NoKey>> \notin sink
          /\ NoKey \notin sent_videos \cup sent_comments \cup sent_accounts
          /\ NoKey \notin saved_bvids \cup saved_rpids \cup saved_mids
          /\ \A k \in 1..Len(comment_queue) : comment_queue[k].rpid # 0
          /\ \A k \in 1..Len(video_queue) : video_queue[k].bvid # NoKey)
    /\ [][/\ \A w \in BagToSet(cw) :
               (w.pc = "emit" /\ Head(w.replies).rpid = 0 /\ Steps(cw, w)) =>
                   /\ cw' = Put(cw, w, AfterReply(w))
                   /\ UNCHANGED <<durableVars, saved_rpids, comment_queue>>
          /\ \A w \in BagToSet(rw) :
               (w.pc = "emit" /\ Head(w.replies).rpid = 0 /\ Steps(rw, w)) =>
                   /\ rw' = Put(rw, w, AfterSubReply(w, 0))
                   /\ UNCHANGED <<durableVars, saved_rpids, comment_queue>>]_vars

\* The first comment of b1's first page came without rpid and was dropped; the
\* second one, rpid 4, was sent and recorded.
C28_Witness ==
    /\ keyless /\ faults = 1
    /\ "4" \in sent_comments
    /\ <<"claw_comment", "1">> \notin sink
    /\ \A k \in 1..Len(comment_queue) : comment_queue[k].rpid # 1

(***************************************************************************)
(*                        Claims: the progress store                       *)
(***************************************************************************)

\* No call has truncated the file without having written it yet
NoWriteUnderWay == \A t \in StoreThreads : store[t].pc # "dump"

\* C29: the progress file is rewritten atomically. Whenever no write is under
\* way, also after the process was killed in the middle of one, the mapping
\* read from the file holds every entry that a completed write has stored.
C29_AtomicRewrite ==
    NoWriteUnderWay =>
        \A b \in Bvids :
            applied[b].present => load_progress_data(progress_file)[b] = applied[b]

\* C30: no lost update. Whenever the lock is free the file parses and holds
\* the mapping that results from the writes that completed, applied one after
\* the other, so the last write of every bvid is in it; and a read returns the
\* entry of that mapping.
C30_NoLostUpdate ==
    /\ progress_lock = 0 => (progress_file.valid /\ progress_file.data = applied)
    /\ \A t \in StoreThreads :
          (store[t].pc = "unlock" /\ store[t].op = "get") =>
              store[t].result = get_video_comment_progress(applied, store[t].bvid)

\* Both workers made their calls, one ending with a cursor stored for b1, the
\* other with b2 marked done, and a read is about to return while a call of
\* the other worker waits for the lock.
C30_Witness ==
    /\ applied["b1"].present /\ applied["b1"].cursor = "A"
    /\ applied["b2"].present /\ applied["b2"].done
    /\ store[1].pc = "unlock" /\ store[1].op = "get"
    /\ store[2].pc = "lock"

(***************************************************************************)
(*                   Claims: behaviour of the components                   *)
(***************************************************************************)

\* The positions of the pool whose credential a step changes
ChangedCookies == {i \in 1..Len(cookies) : cookies'[i] # cookies[i]}

\* C31: a mark_invalid step changes one credential only, the first one that
\* carries its value: either is_valid and enabled become false and fail_count
\* stays (permanent), or fail_count grows by one and is_valid becomes false
\* exactly when fail_count has reached max_fails; the round-robin cursor and
\* the strategy stay, and a mark_invalid that changes no credential (a value
\* no credential has) leaves the whole pool as it was.
C31_MarkInvalidFrame ==
    [][/\ Len(cookies') = Len(cookies)
       /\ cookies' # cookies =>
             /\ UNCHANGED <<index, strategy>>
             /\ \E i \in 1..Len(cookies) :
                  /\ ChangedCookies = {i}
                  /\ FirstWith(cookies, cookies[i].value, 1) = i
                  /\ cookies'[i].value = cookies[i].value
                  /\ \/ /\ ~cookies'[i].is_valid /\ ~cookies'[i].enabled
                        /\ cookies'[i].fail_count = cookies[i].fail_count
                     \/ /\ cookies'[i].fail_count = cookies[i].fail_count + 1
                        /\ cookies'[i].enabled = cookies[i].enabled
                        /\ cookies'[i].is_valid =
                              (cookies[i].is_valid /\ cookies'[i].fail_count < max_fails)
       /\ (cookies' = cookies /\ ret' = NoSelection) => UNCHANGED <<index, strategy>>]_vars

\* Two credentials carry the same value: the first was marked until it was
\* excluded, the second was never touched, and the cursor has moved on.
C31_Witness ==
    \E i, j \in 1..Len(cookies) :
        /\ i < j /\ cookies[i].value = cookies[j].value
        /\ cookies[i].fail_count = max_fails /\ ~cookies[i].is_valid /\ cookies[i].enabled
        /\ cookies[j].fail_count = 0 /\ cookies[j].is_valid
        /\ index > 0

\* Tokens handed out by acquire(1) stay within what the bucket held and refilled
WithinRefill == (~rateSet) => granted <= capacity + now * rate

\* C32: in the looping bucket a call returns True only in a step that finds,
\* after the refill, tokens >= n and deducts n; every other step of acquire,
\* the non-blocking failure included, leaves the refilled count or the count
\* itself; so 0 <= tokens <= capacity after every step, and, the rate not
\* having been changed, the acquire(1) calls granted by time T are at most
\* capacity + T * rate (k callers on a full bucket are done no earlier than
\* (k - capacity) / rate).
C32_LoopingAcquire ==
    [][/\ \A t \in Callers :
            IF acq'[t].ok # acq[t].ok
            THEN /\ acq'[t].ok = acq[t].ok + 1
                 /\ acq'[t].pc = "idle"
                 /\ Refilled >= acq'[t].n
                 /\ tokens' = Refilled - acq'[t].n
            ELSE acq'[t] # acq[t] => tokens' = Refilled
       /\ (acq' = acq) => tokens' \in {tokens, Refilled}
       /\ 0 <= tokens' /\ tokens' <= capacity'
       /\ WithinRefill']_vars

\* Two callers asked for a token of a bucket of one at the same time; both
\* have their token, the second after a sleep, and a non-blocking call of a
\* larger n has failed on the empty bucket meanwhile.
C32_Witness ==
    /\ capacity = 1 /\ ~rateSet /\ granted = 2 /\ tokens = 0
    /\ \A t \in Callers : acq[t].pc = "idle" /\ acq[t].ok = 1
    /\ \E t \in Callers : acq[t].calls = 2 /\ acq[t].n = 2

\* A result of the endpoint's shape whose data are the zero values (an empty
\* list, 0, None, "", is_end True) and whose last element is an error
ZeroResult(func) ==
    CASE func \in {"search_videos", "get_reply_comments"} -> <<"[]", "0", "error">>
      [] func = "get_main_comments" -> <<"[]", "\"\"", "True", "error">>
      [] OTHER -> <<"None", "error">>

\* C33: one call of a wrapped function invokes it at most max_retries + 1
\* times; the attempt whose result carries no error returns at once; the
\* wrapper sleeps at most max_delay, only after a failed attempt that is not
\* the last; and the call that failed on every attempt returns, without a
\* sleep after the last, the zero-valued result of its endpoint with an error.
C33_RetryWrapper ==
    [][\A t \in ApiThreads :
         LET a == api[t]
             b == api'[t]
         IN  /\ b.invoked <= max_retries + 1
             /\ (a.pc = "handle" /\ b # a /\ a.outcome.kind = "code" /\ a.outcome.code = 0) =>
                   /\ b.pc = "returned" /\ b.result = "ok"
                   /\ b.value[Len(b.value)] = "None"
                   /\ b.invoked = a.attempt + 1
             /\ (b.pc = "backoff" /\ a.pc # "backoff") =>
                   /\ a.pc = "handle" /\ a.attempt < max_retries
                   /\ 0 < b.delay /\ b.delay <= max_delay
             /\ (b.pc = "returned" /\ b.result = "error" /\ a.pc # "returned") =>
                   /\ a.pc = "handle" /\ a.attempt = max_retries
                   /\ b.invoked = max_retries + 1
                   /\ b.value = ZeroResult(b.func)]_vars

\* A call of get_main_comments has failed on each of its four attempts and
\* returned; it slept three times, the last time before the last attempt.
C33_Witness ==
    \E t \in ApiThreads :
        /\ api[t].pc = "returned" /\ api[t].result = "error"
        /\ api[t].func = "get_main_comments"
        /\ api[t].invoked = max_retries + 1
        /\ api[t].value = <<"[]", "\"\"", "True", "error">>

(***************************************************************************)
(*                    Claims: comments and their replies                   *)
(***************************************************************************)

\* Comment worker w is done with the first reply of the page it holds
CommentHandled(w) ==
    /\ w \in BagToSet(cw)
    /\ w.pc \in {"emit", "record"}
    /\ cw' = Put(cw, w, AfterReply(w))

\* (aid, comment) as comment_worker puts it on the comment queue
QueuedParent(w) == [aid |-> w.aid, rpid |-> Head(w.replies).rpid]

\* C34: when a comment worker is done with a first-level comment that has an
\* rpid, (aid, comment) has been put on the comment queue in that step if
\* rcount > 0 and nothing has been put if rcount = 0, whether the comment was
\* just recorded or was found in saved_rpids and skipped; the skipped one is
\* not sent; and nothing else puts anything on the comment queue.
C34_ParentsQueued ==
    [][/\ \A w \in BagToSet(cw) :
            (CommentHandled(w) /\ has_rpid(Head(w.replies))) =>
                /\ comment_queue' = IF Head(w.replies).rcount > 0
                                    THEN Append(comment_queue, QueuedParent(w))
                                    ELSE comment_queue
                /\ w.pc = "emit" => (resume /\ sends' = sends)
       /\ Len(comment_queue') > Len(comment_queue) =>
             \E w \in BagToSet(cw) :
                 CommentHandled(w) /\ has_rpid(Head(w.replies)) /\ Head(w.replies).rcount > 0]_vars

\* A resumed run found the comment with rpid 1 (one reply) in the ledger: it
\* has not sent it, and the comment is on the comment queue.
C34_Witness ==
    /\ resume /\ runs = 2
    /\ CopiesIn(<<"claw_comment", "1">>, sends) = 0
    /\ "1" \in saved_rpids
    /\ comment_queue = << [aid |-> 1, rpid |-> 1] >>

\* What the reply the worker holds first adds to total_fetched: one when
\* it is skipped as saved or recorded, nothing when save_comment refused it
CountsFor(w) == IF has_rpid(Head(w.replies)) THEN 1 ELSE 0

\* One step of the reply worker w, which leaves it as w2, keeps to the walk:
\* page 1 first; after a page, the next page while total_fetched is below
\* total_count and the next comment once it is not; after a request, the
\* replies of that page, or the next comment on an error or an empty page.
WalkStep(w, w2) ==
    /\ w2.pc = "fetch" =>
          \/ w.pc = "get" /\ w2.page = 1 /\ w2.total_fetched = 0
          \/ /\ w.pc \in {"emit", "record"} /\ Len(w.replies) = 1
             /\ w2.page = w.page + 1 /\ w2.aid = w.aid /\ w2.rpid = w.rpid
             /\ w2.total_fetched = w.total_fetched + CountsFor(w)
             /\ w2.total_fetched < w.total_count
    /\ (w.pc \in {"emit", "record"} /\ w2.pc = "get") =>
          /\ Len(w.replies) = 1
          /\ w.total_fetched + CountsFor(w) >= w.total_count
    /\ w.pc = "fetch" =>
          \/ /\ w2.pc = "mid" /\ w2.page = w.page /\ w2.replies # << >>
             /\ w2.total_count = ReplyComments(w.aid, w.rpid, w.page).count
          \/ /\ w2.pc = "get"
             /\ \/ faults' = faults + 1
                \/ ReplyComments(w.aid, w.rpid, w.page).replies = << >>

\* C35: a reply worker asks for the pages 1, 2, 3, ... of its comment in this
\* order and leaves the comment exactly on an error, on an empty page or when
\* total_fetched, which counts the recorded and the skipped replies, has
\* reached total_count: it asks for no page after that one; and over a
\* service whose threads end, every worker is done in the end.
C35_ReplyWalk ==
    /\ [][\A w \in BagToSet(rw) : \A w2 \in BagToSet(rw') :
             (w # w2 /\ rw' = Put(rw, w, w2)) => WalkStep(w, w2)]_vars
    /\ <>(\A w \in BagToSet(rw) : w.pc = "done")

\* The thread under rpid 5 is on its second page, asked for after the two
\* replies of the first were counted, one of them skipped as saved.
C35_Witness ==
    /\ resume /\ "6" \in saved_rpids
    /\ CopiesIn(<<"claw_comment", "6">>, sends) = 0
    /\ CopiesIn(<<"claw_comment", "7">>, sends) = 1
    /\ \E w \in BagToSet(rw) :
         w.pc = "mid" /\ w.rpid = 5 /\ w.page = 2 /\ w.total_fetched = 2 /\ w.total_count = 3

\* C36: every blocking acquire(n) returns in the end, whatever n: a caller
\* that sleeps inside acquire is outside it again later.
C36_BlockingAcquireReturns ==
    \A t \in Callers : (acq[t].pc = "sleep") ~> (acq[t].pc = "idle")

\* The same for the calls with n within the capacity
C36_WithinCapacityReturns ==
    \A t \in Callers :
        (acq[t].pc = "sleep" /\ acq[t].n <= capacity) ~> (acq[t].pc = "idle")

\* The pool holds a credential of value v that is excluded from selection
Excluded(v) ==
    \E i \in 1..Len(cookies) : cookies[i].value = v /\ ~cookies[i].is_valid

\* C37: no API request is sent with a credential whose is_valid is false,
\* also by a session that was bound to it before it was excluded, and the
\* fail_count of no credential exceeds max_fails.
C37_ExcludedNotUsed ==
    [][/\ \A t \in ApiThreads :
            (api[t].pc = "request" /\ api'[t].pc = "handle") => ~Excluded(api[t].session)
       /\ \A i \in 1..Len(cookies') : cookies'[i].fail_count <= max_fails]_vars

(***************************************************************************)
(*                       Claims: the pending user ids                      *)
(***************************************************************************)

\* The mids put on the user-id queue in this run (still on it or taken from
\* it) of which no account has been sent
ObservedUnemitted == {mid \in BagToSet(puts) : <<"claw_account", mid>> \notin sink}

\* C38: in every state of a run, every user id that is on the user-id queue
\* or was taken from it, and of which no account has been sent, is a line of
\* pending_mids.txt; so it is after a kill at any point and after the run
\* has finished.
C38_PendingDurable == ObservedUnemitted \subseteq pending_mids

\* The same in the states in which update_pending_mids is not under way
C38_OutsideRewrite == main.pc # "rewrite" => C38_PendingDurable

(***************************************************************************)
(*                       Claims: the signing key                           *)
(***************************************************************************)

\* C39: a get_wbi_mixin_key call whose fetch from nav fails returns the
\* fallback key and leaves the cached key and its expiry as they were; the
\* fallback key is never the cached key, so a call that returns from the
\* cache or after a fetch that succeeded returns a fetched key, not the
\* fallback.
C39_FallbackNotCached ==
    [][/\ \A t \in DOMAIN api :
            /\ (api[t].pc = "nav" /\ api'[t].pc = "request") =>
                  /\ api'[t].key = FallbackKey
                  /\ UNCHANGED <<wbi_mixin_key, wbi_key_expire_time>>
            /\ (api[t].pc \in {"sign_return", "nav_return"} /\ api'[t].pc = "request") =>
                  /\ api'[t].key = wbi_mixin_key
                  /\ api'[t].key # FallbackKey /\ api'[t].key # 0
       /\ wbi_mixin_key' # FallbackKey]_vars

\* At time 0 one thread has made two calls and the other none: the fetch of
\* the first call failed, the second call fetched again, and the thread now
\* holds the fetched key, which is the cached one.
C39_Witness ==
    /\ now = 0 /\ requests = 2
    /\ \E t \in DOMAIN api :
         /\ api[t].calls = 2 /\ api[t].pc = "request"
         /\ api[t].key = wbi_mixin_key /\ api[t].key = FetchedKey(0)
         /\ \A u \in DOMAIN api \ {t} : api[u].calls = 0

(***************************************************************************)
(*                 Claims: at least once over the restarts                 *)
(***************************************************************************)

\* The first-level comments of video b that get_main_comments has returned
\* in some run: those of the pages whose next_offset the service handed out
ServedComments(b) ==
    UNION {SeqRange(MainComments(ViewData(b).aid, c).replies) :
             c \in {c \in {"", "A"} :
                      /\ MainComments(ViewData(b).aid, c).replies # << >>
                      /\ MainComments(ViewData(b).aid, c).next_offset \in served[b]}}

\* The replies the service holds under the comments with replies among them
RepliesUnder(b) ==
    UNION {SeqRange(ReplyComments(ViewData(b).aid, c.rpid, 1).replies) :
             c \in {c \in ServedComments(b) : c.rcount > 0}}

\* A run with resume that followed a restart has returned from run(), no
\* request of it having failed
CleanResumedFinish == runs >= 2 /\ resume /\ faults = 0 /\ main.pc = "done"

\* C40: when a run with resume, started after the process was killed, has
\* finished without a failure, every first-level comment the service has
\* returned for a video and every reply under those comments has been sent
\* to the sink at least once.
C40_AtLeastOnce ==
    CleanResumedFinish =>
        \A b \in Bvids :
            \A c \in ServedComments(b) \cup RepliesUnder(b) :
                <<"claw_comment", Str(c.rpid)>> \in sink

=============================================================================
